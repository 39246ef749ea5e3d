------------------------- MODULE MCResponseExchange -------------------------
(* One key for both directions, so that every signature could stand for    *)
(* every other, and Signers that cover a lot, little, or odd things.  Two  *)
(* of the requests differ in two query parameters with newlines in them,   *)
(* and have the same lines for the pair in a response.  The URL of one is  *)
(* not sent as it is.                                                      *)
EXTENDS ResponseExchange, TLC

MCIdentity(x) == x
MCPair(x, y) == x
MCKey(name) == CASE name = "x-id" -> "X-Id"
                 [] name = "signature" -> "Signature"
                 [] OTHER -> name
MCNone == {}
MCWritten(id) ==
    FoldLeft(LAMBDA text, p : text \o ";" \o p.key \o "=" \o ToString(p.value),
             id.name, id.params)

Req(value) == [key |-> "req", value |-> value]
Field(name, params)   == [name |-> name, type |-> "field", params |-> params]
Derived(name, params) == [name |-> name, type |-> "derived", params |-> params]
XIdReq == Field("x-id", OfRequest)
XIdOdd == Field("x-id", <<Req([bool |-> FALSE]), Req(True)>>)
Param(name)    == Derived("@query-param", <<[key |-> "name", value |-> Str(name)]>>)
ParamReq(name) == Derived("@query-param", <<[key |-> "name", value |-> Str(name)], Req(True)>>)

\* A newline and the identifier of the parameter q, as a response has it.
NewLine == <<LF, MCWritten(writeComponentIdentifier(ParamReq("q")))>>
MCUnescape(atom) == CASE atom = "ab" -> <<"a">> \o NewLine \o <<"b">>
                      [] atom = "bc" -> <<"b">> \o NewLine \o <<"c">>
                      [] OTHER       -> <<atom>>

MCParams == [NoParams EXCEPT !.keyid = Str("k")]
Signer(label, comps) == [label |-> label, comps |-> comps, params |-> MCParams, key |-> "k"]
MCSigners ==
    "C-all" :> Signer("sig1", <<Derived("@method", <<>>), Param("p"), Param("q")>>) @@
    "C-req" :> Signer("sig1", <<XIdReq>>) @@
    "S-all" :> Signer("sig1", <<Derived("@status", <<>>), SignatureReq,
                                Derived("@scheme", OfRequest)>>) @@
    "S-uri" :> Signer("sig1", <<Derived("@target-uri", OfRequest)>>) @@
    "S-id"  :> Signer("sig2", <<XIdReq>>) @@
    "S-odd" :> Signer("sig2", <<XIdOdd, ParamReq("p"), ParamReq("q")>>)
MCClientSigners == {"C-all", "C-req"}
MCServerSigners == {"S-all", "S-uri", "S-id", "S-odd"}

MCURL(user, p, q) ==
    [scheme |-> "https", opaque |-> "", user |-> user, host |-> "h", path |-> "/p",
     forceQuery |-> FALSE, query |-> << <<"p", p>>, <<"q", q>> >>, fragment |-> ""]
Fields(id) == "X-Id" :> << <<id>> >>
Request(id, url) ==
    [kind |-> "request", method |-> "PUT", url |-> url, Host |-> "", tls |-> FALSE,
     header |-> Fields(id), trailer |-> [n \in {} |-> n]]
MCRequests == { Request("a", MCURL("", "a", "c")), Request("b", MCURL("", "ab", "c")),
                Request("b", MCURL("u@", "a", "bc")) }
MCResponses == { [kind |-> "response", status |-> "200", header |-> Fields(id),
                  trailer |-> [n \in {} |-> n], related |-> NoRequest] : id \in {"a", "b"} }

Options(label, required) == [label |-> label, required |-> required, key |-> "k"]
MCClientOptions == { Options("", {}), Options("", {ParamReq("p")}), Options("sig2", {XIdOdd}),
                     Options("sig1", {SignatureReq}) }
MCServerOptions == { NoVerifier, Options("sig1", {Derived("@method", <<>>)}) }

NamesSymmetry == Permutations(Names)

\* An outcome does not change, and nothing else depends on it.  A third signature
\* is there for chains of two verifications, with Signers that cover a lot; two
\* without one of the client among them are for requests that carry none.
By(s) == {n \in DOMAIN made : made[n].signer = s}
Chain == \A n \in DOMAIN made : /\ made[n].signer \in {"C-all", "S-all"}
                                /\ IsResponse(made[n].msg) => made[n].checked
Plain == \A n \in DOMAIN made :
           IsResponse(made[n].msg) /\ made[n].msg.related # NoRequest
           => Get(made[n].msg.related.header, "Signature") = <<>>
Relevant == /\ outcome = NoOutcome
            /\ Cardinality(DOMAIN made) = 3 => Chain
            /\ Cardinality(DOMAIN made) = 2 => By("C-all") # {} \/ Plain
=============================================================================
