----------------------------- MODULE MCHttpSig -----------------------------
(* Two contents, lists of components, two Signers and the options of a     *)
(* verifier that checks little, a lot, or other things than they announce. *)
(* The contents have different values for each of two query parameters,    *)
(* and the same base for the list of the two.                              *)
EXTENDS HttpSig, TLC

MCIdentity(x) == x
MCKey(name) == IF name = "x-a" THEN "X-A" ELSE name
MCPair(x, y) == x
MCWritten(id) ==
    FoldLeft(LAMBDA text, p : text \o ";" \o p.key \o "=" \o ToString(p.value),
             id.name, id.params)

Field  == [name |-> "x-a", type |-> "field", params |-> <<>>]
Method == [name |-> "@method", type |-> "derived", params |-> <<>>]
QueryParam(name) ==
    [name |-> "@query-param", type |-> "derived",
     params |-> <<[key |-> "name", value |-> Str(name)]>>]

\* The atom v1 is v3, a newline and the line of the parameter b.
LineOfB(value) == <<LF, MCWritten(writeComponentIdentifier(QueryParam("b"))), value>>
MCText(atom) == CASE atom = "v1" -> <<"v3">> \o LineOfB("v")
                  [] atom = "v4" -> <<"v">> \o LineOfB("v2")
                  [] OTHER       -> <<atom>>

Message(method, a, b) ==
    [kind |-> "request", method |-> method, Host |-> "h", tls |-> FALSE,
     url |-> [scheme |-> "", opaque |-> "", user |-> "", host |-> "", path |-> "/",
              forceQuery |-> FALSE, query |-> << <<"a", a>>, <<"b", b>> >>, fragment |-> ""],
     header |-> [n \in {"X-A"} |-> << <<"a">> >>], trailer |-> NoHeader]
MCMessages == { Message("GET", "v1", "v2"), Message("PUT", "v3", "v4") }

MCSlices == "both" :> <<Method, Field>> @@ "field" :> <<Field>>
              @@ "pair" :> <<QueryParam("a"), QueryParam("b")>>

Signing(label, slice, alg, of, announceAlg, created) ==
    [label |-> label, slice |-> slice, alg |-> alg, of |-> of, keyid |-> "k", nonce |-> "",
     tag |-> "t", announceAlg |-> announceAlg, announceCreated |-> TRUE, created |-> created,
     now |-> NoInstant, expires |-> NoInstant]
MCSignerOptions ==
    { Signing("", "both", "hmac", "s1", TRUE, NoInstant),
      Signing("sig2", "field", "custom", "s1", FALSE, 2),
      Signing("", "pair", "hmac", "s2", FALSE, NoInstant) }

Lax == [now |-> NoInstant, requireCreated |-> FALSE, requireExpires |-> FALSE,
        notNewerThan |-> 0, notOlderThan |-> 0, rejectExpired |-> FALSE,
        expiresNotBeforeCreated |-> FALSE]
Strict == [Lax EXCEPT !.notOlderThan = 1]

Verifying(label, required, alg, allowed, key, params) ==
    [label |-> label, required |-> required, alg |-> alg, allowed |-> allowed,
     key |-> key, params |-> params]
MCVerifyOptions ==
    { Verifying("sig2", {Field}, "", {}, NoKey, Strict),
      Verifying("sig1", {}, "", {"hmac"}, NoKey, Strict),
      Verifying("sig1", {QueryParam("a")}, "hmac", {}, NoKey, Lax),
      Verifying("", {Method}, "custom", {}, NoKey, Lax),
      Verifying("", {Method}, "hmac", {}, "s1", Strict) }

MCKeyRings ==
    { "k" :> [key |-> "s1", alg |-> ""], "k" :> [key |-> "s1", alg |-> "custom"],
      "k" :> [key |-> "s2", alg |-> "hmac"] }

\* The member of a verifier's wish: everything it asks for, in a header nobody signed.
MCForeignInputs ==
    { [items |-> <<[name |-> "@method", params |-> <<>>]>>,
       params |-> <<[key |-> "keyid", value |-> Str("k")]>>] }

MCBuiltin == {"hmac"}
MCCustom == {"custom"}
MCCalls == {"g1"}
MCNone == {}

\* With two Signers or signatures the clock stands: the mixing of headers is one
\* question, the age of a Signer another.
OneQuestion == clock = 0 \/ (Cardinality(signers) <= 1 /\ Cardinality(events) <= 1)

\* A verification has its own request and happens once: the wire matters until it
\* starts, and nothing once it is done.  NewVerifier depends on nothing, so that
\* all that comes before the start may as well come before it.  The key resolver
\* is asked after the start, and answers anything then.
Waiting(g) == calls[g].pc = "idle"
Relevant == /\ \E g \in Calls : calls[g].pc \in {"idle", "resolving", "resolved"}
            /\ (\A g \in Calls : Waiting(g)) => keyring = CHOOSE k \in KeyRings : TRUE
            /\ OneQuestion
RelevantStep == options # NoVerifier => UNCHANGED <<wire, slices, signers>>
=============================================================================
