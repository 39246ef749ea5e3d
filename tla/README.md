# TLA+ specifications of http-message-signatures-rfc9421-go

The library signs and verifies HTTP messages (RFC 9421), with a structured-field
parser (RFC 8941), Content-Digest (RFC 9530) and six signature algorithms. It is
mostly sequential Go; what is hard in it is that two programs, a signer and a
verifier, must compute the same text from a message that changes its form on the
way, from headers anybody may have put together, at times and with key
material that change while a verification runs. The specifications here are
about that agreement, for requests and for responses that are bound to their
requests, about the text of structured fields and the files of keys on its two
sides, about the global algorithm registry (the one place with locks), and about
the arithmetic of `created` and `expires`.

All paths below are relative to `src/pkg/`. `PROJECT.json` lists for every
definition the lines it was translated from.

## 1. Inventory

| Component | Source | State | Operations | Called by |
|---|---|---|---|---|
| Algorithm registry | `signing/algorithm.go` | a package-level map behind a `sync.RWMutex` | `RegisterAlgorithm`, `GetAlgorithm`, `SupportedAlgorithms`; `init()` of each algorithm file | `NewSigner`, `Verifier.verifyMessage`, applications |
| Signature algorithms | `signing/hmac.go`, `ed25519.go`, `ecdsa.go`, `rsa.go` | none | `Sign`, `Verify` of six algorithms; fixed-length encoding of ECDSA | Signer, Verifier |
| Key parsing | `signing/keys.go` | none | `ParsePrivateKey`, `ParsePublicKey`, which try the formats in turn, and one strict function for each format; PEM or DER | applications |
| Component values | `base/extract.go`, `adapter.go`, `builder.go` | none; reads a request or response | obsolete line folding, derived components, fields with `sf`, `key`, `bs`, `tr`, `req`; reconstruction of the URL | `base.Build` |
| Signature base | `base/build.go`, `signature_base.go`, `component_line.go`, `signature_params.go` | none | one line per component, then `@signature-params` | Signer, Verifier |
| Signature-Input parser | `parser/parser.go`, `validator.go`, `types.go` | none | `ParseSignatureInput`, `ParseSignatures`, validation of component identifiers | Verifier; `ParseSignatures` by applications |
| Parameter validation | `parser/params_validation.go` | none; reads the clock | `ValidateSignatureParams` | Verifier |
| Signer and Verifier | `httpsig/signer.go`, `verifier.go` | a Signer keeps the parameters, the header text and **the caller's slice** of components; a Verifier keeps its options | `NewSigner`, `SignRequest`, `SignResponse`, `NewVerifier`, `VerifyRequest`, `VerifyResponse`; calls back into the application's `KeyResolver` | applications |
| Header serialization | `httpsig/serialize.go` | none | Signature-Input and Signature lines | Signer |
| Structured fields | `sfv/` | the offset of a parser | dictionaries, lists, inner lists, items, limits; the inverse serializer | parser, base, digest, httpsig |
| Content digest | `digest/` | the hashes of a running verification | `FormatContentDigest`, `ParseContentDigest`, `VerifyContentDigest` (stream), `VerifyContentDigestBytes` | applications |
| Examples, benchmarks, conformance programs | `src/examples`, `*_test.go` | none | demonstrations | nobody |

How they interact: `NewSigner` looks the algorithm up, fixes `created` and
`expires`, serializes the Signature-Input header **once**, and keeps the list of
components by reference. Each `SignRequest` builds the base from that list and the
message and calls `Sign`. `VerifyRequest` reads both headers, selects a label,
checks required components and times, calls the key resolver, reconciles up to
three announcements of the algorithm, looks the algorithm up, rebuilds the base
and calls `Verify`. Signer and verifier share nothing but the message.

What is hard, and the properties that make the parts correct:

- **Registry**: the existence check and the insertion are separate map accesses;
  a range loop runs against writers; an error path leaves under the write lock.
  Correct means: no data race, the first registration wins, every call is atomic,
  every call returns.
- **Component values**: a client request has an absolute URL and no TLS state, a
  server request the reverse; intermediaries join and add field lines. Correct
  means: what the client could extract the server extracts unchanged; no field
  value breaks its line of the base; the fold scanner does what RFC 9421 2.1 says.
- **Signature base**: values are written as they are, and a query parameter, which
  is percent-decoded, may hold a newline. Correct means: two messages with the same
  base agree on what was covered, which holds where no covered value has one.
- **Signature-Input**: the signer serializes once, the verifier parses, and both
  write the `@signature-params` line with code of their own. Correct means: what
  is written can be read, with nothing lost, and both lines are the same text.
- **Times**: parameters are whole seconds, clocks and limits are not, and
  `created` is that of the Signer, not of the signature. Correct means: limits
  hold for the exact instants, and refusals come at most a second early.
- **Verification**: headers of two messages, several labels, key rotation during
  the callback, edits of the shared slice, contradictory announcements. Correct
  means: an accepted request was signed, with that key and algorithm and those
  parameters; required components have the values that were signed, as far as the
  base tells them apart; an unchanged request is not refused.
- **Responses**: with `req` a response covers parts of its request, its signature
  among them; client and server pass the request as each of them has it.
  Correct means: what an accepted response says of its request is true on both
  sides, and no signature of a request passes for one of a response.
- **Header pairing**: a message is signed by several parties, on one line or on
  several, and two functions pair Signature-Input with Signature. Correct
  means: both pair alike, and as the signatures were made.
- **Structured fields**: the verifier parses what any implementation may have
  written, with a limit in each of seven loops, and writes it anew. Correct
  means: every spelling is read as what it means, what was written is read back,
  and the strict form of a field keeps what the field says.
- **Algorithms and keys**: six pairs of checks that must agree, an encoding of
  numbers that must neither lose leading zeros nor have a second form, and key files whose
  formats do not say what they hold. Correct means: who can sign can be
  verified, whichever functions read the two halves of the key.
- **Content digest**: stream and byte variants must agree, whatever the pieces and
  wherever the stream fails.

The complete list of hazards, at their lines, is `hazards` in `PROJECT.json`.

## 2. Modules

```
AtomicRegistry  <--refines--  AlgorithmRegistry  <--  MCAlgorithmRegistry
FieldValue  <--  FieldCanonicalization  <----------------+
    ^                                                    |
SignatureBase  <--  NetHTTP  <--  RequestTransit  <--  MCRequestTransit
    ^                  ^
    |                  +-----------------+
SignatureInput  <--  ResponseExchange ---+  <--  MCResponseExchange
    ^         ^
    |         +--  SignatureInputExchange, SignatureHeaders  <--  MCSignatureInput
HttpSig  <--  MCHttpSig
    |
    v
ParamsValidation  <--  SignatureLifetime  <--  MCSignatureLifetime
Signing  <--  SigningExchange  <----------------------+
    ^                                                 |
KeyParsing  <--  KeyExchange  <--  MCSigning ---------+
FieldValue  <--  StructuredFields  <--  StructuredFieldText, StructuredFieldPeer
                                           <--  MCStructuredFields extends both
ContentDigest  <--  MCContentDigest
```

The proofs, each module with what it is about:

```
SigningProof            AlgorithmRegistry, KeyExchange, SigningExchange
SignatureBaseProof      SignatureInput, NetHTTP, FieldValue: lemmas for those below
    HttpSigProof            HttpSig
    SignatureInputProof     SignatureInputExchange, SignatureHeaders, SignatureLifetime
    ResponseExchangeProof   ResponseExchange
    RequestTransitProof     FieldCanonicalization, RequestTransit, ContentDigest
    StructuredFieldProof    StructuredFields, StructuredFieldText: one text
        StructuredFieldPeerProof  StructuredFieldText, StructuredFieldPeer: others' texts
```

Modules without variables hold the sequential code as operators; modules with
variables put those operators between the actors that call them. Four MC modules
(`MCRequestTransit`, `MCSignatureInput`, `MCSigning`, `MCStructuredFields`) hold
two specifications on the same code: `MCNext` moves either of them while the
other is in its initial state, so that the run explores both, side by side.

**AlgorithmRegistry** has a program counter per goroutine and one action per lock
operation and per map access of `algorithm.go`. `sync.RWMutex` is external and is
modelled as far as the code relies on it: an inner mutex between writers
(`writer`), the readers inside (`readers`), and readers asleep behind a waiting
writer (`blocked`), who are all let in when it leaves. The range loop of
`SupportedAlgorithms` visits keys one at a time in any order. **AtomicRegistry**
is what the three functions promise: each takes effect in one step between
invocation and return.

**FieldValue** is `normalizeLineFolding`, `skipObsFold` and
`canonicalizeFieldValues` over sequences of character classes. The loop over the
string is a recursive function.
**FieldCanonicalization** grows header lines character by character and holds
the positional reference definition the scanner is compared with.

**SignatureBase** is `extract.go`, `adapter.go`, `build.go` and
`signature_params.go`. A message is a record (method, url, Host, tls, header,
trailer), a URL a record of the eight parts of `url.URL` that reach a component or
that `resolveRequestURL` drops. A base is a text, a sequence of tokens:
for each component its identifier (`IdentifierText`), the tokens of its value as
they are, and a newline (`writeComponentLine`), at the end the line of the
parameters, which is one token since its strings are escaped. A newline is always a
token of its own, in a decoded query parameter as well, and so is an identifier where
it begins a line: a value may have in it what is, in another message, the end of a
line and the beginning of the next one. The strict form of a field is
a CONSTANT operator here; StructuredFields says what it is.
**NetHTTP** (external) is what a server's net/http makes of the request a client
sent, and what intermediaries may do to field lines. `Portable` and `URISafe` name
the requests whose two forms the code treats alike: no userinfo (the server's URL has
none; net/http sends it as a field, which is left out), no opaque part and, for
`@target-uri`, no fragment and no `?` without a query.
**RequestTransit** has a request signed at a client, sent, and changed in form.

**SignatureInput** is the writer (`serialize.go`), the reader (`parser.go`,
`validator.go`) and what the SFV grammar refuses between them: keys, characters,
the range of integers, limits. `MaxInteger`, `MaxComponents`, `MaxMembers` and
`MaxParameters` scale the constants of the code down; strings that are too long are
among the `Unreadable`, and so is, among component names, what is no string.
**SignatureInputExchange** lets a Signer or somebody else write a header, an
intermediary append a member, and the parser read.
**SignatureHeaders** has up to three parties sign one message: this library's
signer, which replaces both headers (`SignRequest`), and others, which append to
them; lines are combined, members lost, values damaged. `made` is the history
of what was signed. `ParseSignatures` and the pairing of `verifyMessage` read the
result.

**ResponseExchange** composes both with NetHTTP: the client composes and signs
requests, servers verify and answer what reaches them and sign the answer with
the request as they see it, the client verifies what reaches it with the request
as it has it. Between them any contents and any signatures there are may be
put together. A signature is a name with a history (`made`), so that any number
of exchanges run over the same names. Time, key resolution and algorithms are
left to HttpSig.

**StructuredFields** is `sfv/` over sequences of characters: each parsing function
takes a text and an offset and returns a value and an offset, or `Fail`;
`Limits` has the seven limits. The loops of the parser are one operator, `Rounds`:
it goes on at the offsets in `more` and takes from `round` what one pass reads, so
that inner lists, parameters, strings and members differ in these two only.
It includes what `extract.go` makes of `sf`.
**StructuredFieldText** puts a field together from pieces of text, on one or two
lines. **StructuredFieldPeer** is another implementation of RFC 8941 (external):
it writes a dictionary with every liberty the grammar leaves and keeps what it
means (`members`) beside what it writes (`written`). `Spells(s, val)` says which texts
a bare item has in the RFC, `Means(dict)` which dictionary the members are.

**ParamsValidation** is `params_validation.go` with instants in ticks, of which
`TicksPerSecond` make a second. **SignatureLifetime** runs one Signer against one
Verifier and a clock.

**Signing** is the checks of each algorithm's `Sign` and `Verify` in their order
(base, type, nil, size or curve, length) and the ECDSA encoding, byte by byte, with
bytes of `ByteValues` values; `Beyond(n)` is the first number that n bytes do not
hold. **SigningExchange** issues signatures, damages bytes, and
verifies. A library signature is any value not issued before, the same again for
deterministic algorithms. The library accepts the `Forms` of what it issued: that
value and, for ECDSA, (r, N - s), which `Verify` does not rule out.
**KeyParsing** is `keys.go`: a file is a sequence of blocks, a block a structure in
one of five forms around one half of a key pair, or something else. The decoders of
crypto/x509 are external: each reads its own form. **KeyExchange** has a signer
and a verifier read files with functions of their choice, sign and verify.

**HttpSig** composes them. Actors: the application that makes Signers, signs and
writes to its component slices; the way between (rewrite the message, merge and
mix header values, damage a signature); the surroundings of a running
verification (clock, key rotation, registration); and verifications in three
steps, up to the key resolver, the resolver's return, and the rest, which is
where the code lets others run in between. The `created` of a Signer is taken from
the `Created` of its options, from what their `Now` returns, or from the clock
(`CreatedInstant`), and `stamped` remembers it. A signature is the triple [alg, of,
base] of what was signed with what: cryptography is assumed to accept exactly
those, in whatever form. `events` is a history of what was signed; the properties compare
accepted calls with it.

**ContentDigest** has the receiver's stream read in pieces of any size, and failing
at any point, and a header that gains members or junk. A digest value is a record of
algorithm, length and content, so that different bodies have different digests.
Names are sorted by their rank (`Sorted`), which is what any sorting function does.

Operators that are mutated forms of a definition stand next to it and say
"Mutant"; nothing but the mutation checks listed in `PROJECT.json` uses them.

## 3. Runs

| Run | States | Question and result |
|---|---|---|
| `registry` | 0.12 M | Do three goroutines ever race, replace an entry or observe a call half done? No; the module refines `AtomicRegistry`. Does every call return? Yes, under `FairSpec`. |
| `transit` | 1.2 M | Does the fold scanner agree with the positional definition on all pairs of lines up to four characters? Yes; field values hold no newline, and joining lines changes nothing if no line is blank. Which component values survive from client to server? All, if the URL's host is the Host, the method is explicit, no field line is blank, TLS ends at the server (for `@scheme` and `@target-uri`), the URL has neither userinfo nor an opaque part, and (for `@target-uri`) it has a path, no fragment and no `?` without a query. |
| `headers` | 1.4 M | Does the reader get back what the Signer wrote? Yes for interoperable options; and whenever a header can be read, both sides have the same `@signature-params` line. Do the two readers of the pair of headers agree? Yes on what both can read, and what is paired was made together; after signing by other parties every signature is read. |
| `wire_order` | stops early | Is `@signature-params` in the header's order? **No**, see Findings. |
| `lifetime` | 0.35 M | What do limits guarantee for exact instants? Age and expiry hold exactly, the future bound with less than one second to spare; refusals come less than a second early; a stale Signer stays refused. |
| `keys` | 0.83 M | Does `Verify` accept what `Sign` returned? Yes for the six algorithms. Anything else? For ECDSA also (r, N - s), which the library accepts; each of the values it accepts in one encoding only. Is what a signer signed accepted with the other half of its key from any file, is who is refused as a signer also no verifier, and do strict and lenient functions return the same keys? Yes. |
| `never_panics` | stops early | Do `Sign` and `Verify` return for every key? **No**, see Findings. |
| `httpsig` | 0.16 M | What does an accepted verification establish? Authenticity; the covered components and, where no covered value has a newline, the values of the required ones; agreement of algorithms, signed parameters, and an age measured from the instant the Signer was stamped with. Is an unchanged, acceptable request refused? No. |
| `digest` | 0.61 M | Do stream and byte verification agree, and is the accepted body the one that was sent? Yes; a header the library wrote can be read. |
| `responses` | 1.9 k | With one key for both directions: can a signature of a request come back on a response? Not if the response covers anything of its request. What does an accepted response establish? Where no covered value has a newline: its required components were signed; what it covers of the request has one value on both sides; if it covers the request's signature and servers verify, what the client signed reached the server. Is the server's own answer refused? No, for requests net/http transmits as they are. |
| `structured_fields` | 0.70 M | Is every spelling of a dictionary read as what it means, up to the limits and not beyond? Is what was written read back? Does the strict form keep lists, and do combined lines mean what the lines meant? Yes, for the texts each property names. |
| `sf_strict` | stops early | Is the strict form of a canonical list that list? **No**, see Findings. |

**Bounds.** Three goroutines are the least with a writer that waits, a reader
inside and a reader asleep; identifiers are built-in, custom and empty.
`TellingCalls` in MCAlgorithmRegistry leaves out calls that repeat another in
effect (a lookup of a registered custom identifier is that of a built-in one);
liveness does not depend on it, since nothing is fair about starting a call.
Four characters hold every fold with text on both sides (CR LF blank x), and two
lines every join. The requests of `transit` are 93 URLs with each part varied,
userinfo, opaque parts, an empty query, an encoded newline and a bad escape
included, with field values with and without blanks, one of them not a structured field.
Limits in `headers` are crossed by one in every dimension (components, members,
integer range, label, characters); three signings (`MaxSignings`) of one message
are what it takes to have a replaced, an appended and a combined header at once.
In `lifetime` limits lie at, below and above the two ticks of a second and the
clock (`MaxClock` = 8, a constraint) runs past every one of them. `keys` has
pairs on both sides of each check: an RSA modulus one bit short, a curve no
algorithm takes, a kind no algorithm takes. `digest` bodies include one that
begins and ends others, and `MaxRewrites` = 2 adds a member on each side. In
`structured_fields` the limits are scaled down (`Limits`, `MaxDigits`) so that texts
of a few pieces cross each of them; each alphabet and each vocabulary has the
pieces that one part of the grammar tells apart (members and parameters, inner
lists, strings and byte sequences, numbers), with a bound of its own.

`httpsig` and `responses` each have two messages with different values for two query
parameters, one of which has a newline and the identifier of the other in it, so
that their lines are the same text: this is where the properties would fail without the
condition on newlines. The Signers of `httpsig` take `created` from the clock or from
their options, one of them later than the clock.
`httpsig` allows two Signers, two signatures and one verification: a mixed pair
of headers needs two signatures, and a verification writes nothing another one
reads, so that the other steps already contain all that a second verification
could observe. The clock goes to `MaxClock` = 2 past the limit of one, where there
is one Signer and one signature at most (`OneQuestion`): mixing headers is one
question, age another. `Relevant` drops states after the verification is
done, and starts with one key ring, since the ring is only read after the
start and can be rotated then. `RelevantStep` lets the making of the
request come before `NewVerifier`: `NewVerifier` is independent of these steps,
so every reachable start of a verification is still reached. In `responses` a
third signature name is there for chains of two verifications only (`Chain`), with
the Signers that cover a lot: a signature covers at most the one it was verified with.
Two signatures without one of the client's main Signer among them are for requests
without a signature (`Plain`). All are stated next to
their definitions, and the properties are evaluated in the states at the edge too.

**Symmetry** is used over signature names in `responses` and over two of the
labels in `headers`; the values in the other specification of that run are not
touched by it. `registry` has none, because it checks liveness.

**Deadlock** is checked except where the system may end: a request that was
received, an entry that was read, bodies that were verified, a key exchange that
is over, a text at its bound, the bound on issued signatures.

**Fairness.** `FairSpec` gives weak fairness to each goroutine's steps, which is
Go's scheduler: a runnable goroutine runs. Taking the inner mutex of the RWMutex
has strong fairness, since a contender sees it free and taken again infinitely
often: `sync.Mutex` hands over to a waiter after one millisecond (starvation
mode). Starting a call has no fairness. No other module has liveness properties:
the rest of the library is sequential and calls return.

## 4. Proofs

Eight modules, checked by TLAPS for all values of the constants that satisfy the
named assumptions, which TLC evaluates on the runs. What they say of the
constants, and why the code justifies it:

| Assumption | Says |
|---|---|
| `RegistryAssumption`, `ClockAssumption`, `LifetimeAssumption` | kinds of the constants: a second has ticks, policies are numbers, no model value stands for two things, every identifier has a built-in implementation or none |
| `SigningAssumption` | a byte has at least two values, a signature at least one byte |
| `OrderAssumption` | the order of a curve fits into the bytes of one component |
| `ExchangedKeysAssumption` | the halves of one key have matching sizes, as the libraries make them |
| `KeyParsingAssumption`, `KeyExchangeAssumption` | different key pairs have different halves; the base that is signed is not empty |
| `FieldsAssumption` | the limits are numbers, an integer may have a digit |
| `TextAssumption`, `PeerAssumption` | what stands for the end of a text is no character of it; a peer keeps to the grammar: its keys are tokens, its spellings are `Spells` of their values, a separator has one comma |
| `DigestAssumption` | names are distinct strings, a body is a sequence of bytes |
| `FieldAssumption` | letters are neither blanks nor newlines |
| `TransitAssumption` | requests are `http.Request` records for http and https URLs; net/http sends no line with a newline; a `#` ends the query of a URL |
| `InputAssumption`, `HeadersAssumption` | Go's types: component lists, parameters and members are what callers, or the structured-field parser, can produce |
| `HttpSigAssumption` | the same for the callers of `httpsig`, options have their types |
| `ExchangeAssumption`, `RequestAssumption` | the Signers are ones NewSigner returned, messages are http records, a program does not set Signature itself, nil is no request |

- **SigningProof**. *Registry*: `IInv` = `TypeOK`, `LockInv` (who holds the lock, told
  from program counters), `CallInv` (what each program counter says of the call).
  `NoDataRace` is not inductive: that nobody else is at the map follows from
  `LockInv`, whose core is that no reader is inside once a writer has drained.
  `FirstWins` needs the conjunct of `CallInv` that the identifier is still free
  at "insert"; `RegistryIsAtomic` needs the one that a range loop has, between
  keys visited and keys left, exactly the keys of the map. The refinement proof
  has one case per action, each an abstract step or a stutter.
  *Key files*: `Suitable(alg, pair)` says without files or Go types which
  pairs an algorithm can use. A parser reads the usable pairs in the formats it
  is for and nothing else, and an algorithm takes both halves of such a pair or
  neither; `KInv` carries this along the exchange.
  *Signatures*: `XInv` = the bytes that were made are `Written` of the values the
  library returned, these are of their algorithm and key, and the outcome is what
  `Verify` says of the bytes that were asked. `AcceptedHasOneEncoding` then needs
  that reading back is one to one (`ReadIsFilled`: different bytes are different
  numbers) and `SignedIsVerified` that it is the inverse (`FilledIsRead`: no leading
  zero is lost), for components of any length. Both follow from `NumberByNumber`,
  induction from byte to byte.
- **SignatureBaseProof**: lemmas. What the parser returns is well formed; components
  with equal identifiers are equal; equal bases have equal parameters
  (`BaseParams`), although the parameters are written with absent ones left out, and
  equal components, since the last line names them (`BaseInjective`). As to their
  values, both texts have as many lines, one after the other and each with a newline
  at its end; where no value on one side has a newline of its own, the first newline
  of every line is at its end on that side, and so the lines are the same one by one
  (`SameLines`). One side is enough: the verifier can look at the values it sees.
  Without the condition the lemma is false. `ParsedParams`: a verifier that computed
  the signer's base has read the signer's parameters; `ParamsReadBack` and
  `EntryReadBack`: the reader gets back what was written; `SameAtServer`: client and
  server form of a request give every component the same value.
- **HttpSigProof**: four invariants, each an extension of the one before. `HInv`:
  every signature in a header or a running call was made by a Signer (or is
  damaged), and what an accepted call established. Then `Authentic`: the
  verification of [alg, of, base] pins all three. It assumes nothing of messages or
  key rings. `CInv` adds that component lists are well formed wherever they were
  copied, that events hold the base `Build` computed, and that a running call covers
  what is required. The argument for `CoveredUnchanged`: equal bases have the same
  last line, and well-formed components with equal identifiers are equal; so the
  signed list is the verified list, the required component is in it, and, where no
  value the verifier sees has a newline, its line is the same on both sides. Writing
  to a Signer's slice changes the events' list, not the argument. `PInv` adds that a
  Signer announces no other second as created than the one it was stamped with, that
  a running call has passed the checks of its parameters at its start, and that the
  algorithm it uses is the one `initialAlgorithm`, the resolver and the allowed list
  leave. `ParametersAreSigned` follows from `ParsedParams`. `SignerIsYoung` is then
  the bound of `ValidateSignatureParams` on a `created` that, by the same lemma, is
  the Signer's; `AlgorithmAgreement` needs that the `alg` parameter the verifier
  followed is the signed one. `QInv` is the other direction, for `Complete`: every
  way a call can be refused, at each of its three steps, is one of a list
  (`Refusal`), and in the presence of an acceptable, unchanged request none of them
  applies. It needs that `Build` depends on nothing but the message, the components
  and the parameters, and that what the Signer wrote is read back.
- **SignatureInputProof**. *Headers*: `EInv` and `HInv`. What `CanonicalParams`
  writes is a list with each parameter that is present once (`Lists`), so what
  `extractSignatureParams` finds under a key is that value. For the pairing of two
  headers: every member on the lines comes from one of the present signings, labels
  that are distinct there stay distinct on the lines, both readers ask the same of
  the lines (`Pairing`, `Parsing`), and what they find under one label are the two
  halves of one signing (`HalvesMatch`).
  *Lifetime*: `LInv` = types, parameters are the instants cut to
  seconds, and the verdict is what validation says at `checked`. From it
  the bounds follow by the division lemmas of `Unix`, for every clock
  resolution. `StaleForEver` needs that the clock does not go back.
- **ResponseExchangeProof**: three invariants. `RInv` = every signature was made over
  a base of its message, and an accepted outcome was compared with a base of the
  response. With `BaseInjective` the covered components agree one by one, in their
  values where the client sees no newline in one (`Unforged`).
  `NoReflection` needs in addition that a component with `req` cannot be built for a
  request, `AnswersMyRequest` that `extractFromRelatedRequest` reads the related
  request of either side. `SInv` adds what each name of a signature stands for, what
  servers knew when they answered, and that the text of a Signature field says
  which signature it is; from it `RequestReachedServer`. `OInv` adds how the server
  put its own response together, for `OwnResponseVerifies`.
- **RequestTransitProof**. *Fields*: `normalizeLineFolding` goes forward over the line
  and is a recursive function that is defined from the end. That such a
  function exists is proved from the last argument at which it could fail to;
  what it returns is proved from the last position at which a claim about it
  could fail, so that no induction principle is needed (`ScanIsUnfolding`).
  `CanonicalAgain` says that a canonical value is its own canonical value.
  *Requests*: `TInv` says what is left of the request on the wire (`Travelled`).
  With `CombinedValue` and `SameAtServer` every component arrives. For
  `TargetURIIsComplete` the text of `@target-uri` is taken apart: the first five
  pieces by their places (of a URL that is not opaque), the fragment at the first
  `#` (`EndsAtMark`), which is why `TransitAssumption` excludes it from the query.
  *Content digest*: `DInv` = a running verification has one hash for each
  algorithm that was asked for and found, each with what was read of the stream so
  far (`Hashing`); it accepts at the end of the stream only, and refuses what the
  byte variant refuses (`Concluded`); and where nobody forged the header, it is
  that of the body (`Genuine`). `StreamsAgree` and
  `AcceptedBodyIsIntact` follow. `WrittenDigestsAreRead` needs that sorting loses no
  name: every name has a rank of its own, and every rank is taken.
- **StructuredFieldProof**. *The parser*: the grammar is stated as relations between a
  text and two of its offsets: `BareAt(s, i, v, j, Ch)` says that `s` has between i
  and j a spelling of the bare item v, and `ParamAt`, `ItemAt`, `ListAt`, `MemberAt`,
  `EntryAt` the same of what is built from bare items. Each has two lemmas, that what
  the parser returns is there (`...Returns`), and that what is there is returned within
  the limits and refused beyond them (`...IsRead`). A loop is followed
  along the offsets it passes, from the first or the last one at which a claim
  about it could fail, which takes the place of an induction over the text.
  *The serializer* (`StrictlyKept`, `ReadAgain`): where a text has
  what the serializer writes for a value, the grammar has the value there
  (`...Written`), and so the parser returns it; what base64 writes is decoded to the
  same bytes, for any number of them (`DecodedIsEncoded`). `StrictlyKept` needs that a
  list of the kind `NotCutShort` describes is either no dictionary at all
  (`NoKeyNoDictionary`) or has the same text as one (`FlagsAreWritten`).
- **StructuredFieldPeerProof**. *Several lines* (`LinesAreMerged`): a text that is
  part of another one is read there as it is alone, up to what follows it (`Part`,
  `Tells`); the lines are runs of entries (`Run`), and a comma between two lines
  joins their runs. The members of
  the joined line are then those of the lines, one by one, and putting them into
  a dictionary in turn is merging (`put`).
  *A peer* (`SpellingsAreRead`): `EverySpellingIsRead` is about closed dictionaries and
  the peer gets there one production at a time. `PeerInv` says of every
  state that the text so far has the members so far, the last one complete, or an
  inner list that is open after its last item (`Composed`: `Begun` for the members
  before, `ClosedAt` or `OpenAt` for the last one). Each of the six actions extends
  the text at its end, and needs that what was there is not read otherwise because of
  what comes after it: a key ends where no token character follows, a number where no
  digit does. For the limits, the keys counted by the parser and by
  `WithinLimits` are the same (`KeysCount`).

The type invariants and the strengthened invariants above are proved and not
properties of a run: what they are for, a run checks.

Model-checked only: liveness (`EveryCallReturns`), which is out of the prover's reach.
Every other property of the runs that pass is a theorem; the runs are what shows that
their hypotheses are met and that the interesting cases occur. The properties of the
runs that stop early are false, see Findings. What the proofs
take as given is what the models take as given: cryptography that accepts
what was signed for no other base, key or algorithm, and net/http as NetHTTP describes it.

## 5. Findings

- `signing/rsa.go:83` (run `never_panics`): `rsaPSSAlgorithm.Sign` uses
  `rsaKey.N` of a key that has passed the type assertion only. A typed nil
  `*rsa.PrivateKey` panics, where the interface's comment at
  `signing/algorithm.go:69` says "Return descriptive errors (never panic)"; the
  ECDSA algorithms test for nil. The same holds for the other RSA functions.
- `base/signature_params.go:42` (run `wire_order`): the base is rebuilt with the
  parameters in a fixed order and without unknown ones. The base of RFC 9421
  B.2.1 quoted at `signing/rfc_examples_test.go:82` has `created, keyid, nonce`,
  which the code would rebuild as `created, nonce, keyid`. Signatures of
  this library verify with this library (`SameParamsLine`), those of other
  signers only if they happen to use the same order.
- `base/extract.go:271` (run `sf_strict`): the strict form of a field asks
  `ParseDictionary` first, then list, then item. `ParseDictionary` takes a token for
  a key and ends without an error at the first text that is no comma
  (`sfv/dictionary.go:79`): of the canonical list `a;a` it makes `a`. The comment at
  `base/extract.go:156` says "Serialize as RFC 8941 Structured Field". Both sides cut the
  text alike, so that signatures of this library verify, but what was cut is not
  covered. `StrictKeepsLists` says for which texts nothing is lost.

What the conditions in the properties say of the code, also without a run of its own:

- `@query-param` is percent-decoded (`base/extract.go:466`) and written as it is
  (`base/component_line.go:42`), where RFC 9421 2.2.8 has it encoded again. It is the one
  value in which the code itself makes a newline, and then the base
  does not say where a value ends: parameters a and b may have the values
  `A <newline> "@query-param";name="b": B` and `C`, or `A` and
  `B <newline> "@query-param";name="b": C`. `CoveredUnchanged`, `AnswersMyRequest`,
  `RequiredWereSigned` and `RequestReachedServer` therefore speak of values on one line
  (`OneLineEach`, `Unforged`); without this condition the runs violate each of the first
  three.
- `resolveRequestURL` returns the client's URL as it is, with userinfo, an opaque part
  and the `?` of an empty query, and makes one without them on the server
  (`base/adapter.go:44`, `:63`). A client that signs `@target-uri` of such
  a URL signs another text than its server verifies.
- `Created` of the Signer's options may be later than its making (`httpsig/signer.go:74`):
  the age a verifier limits is that of `created`, not that of the Signer.
- `crypto/ecdsa` accepts (r, N - s) where it accepts (r, s), and `Verify` does not ask for
  the smaller s (`signing/ecdsa.go:211`): the bytes of an accepted ECDSA signature
  are not determined by what was signed.

Divergences from RFC 8941 and from the repository's README that the models show
and that have no run of their own:

- A key followed by a blank or by parameters is not read as `true`
  (`sfv/dictionary.go:99`); `EverySpellingIsRead` excludes such members.
- Tokens lack the characters ``+!#$&'^|~` ``, there are no decimals, no blank may
  follow `;`, duplicate parameters are kept, the items of an inner list need no
  space between them, and a key that is written again is refused when the dictionary
  is at its limit.
- `Header.Get` reads one line of Signature-Input and of Signature
  (`httpsig/verifier.go:112`): with the second signature on another line no label is
  asked for, where `src/README.md:134` asks for one with several signatures.
  `ParseSignatures` reads the lines it is given.
- `SignRequest` replaces the signatures a message has (`httpsig/signer.go:134`).
- Key files: only the first PEM block is read, whatever its label; keys on P-224
  and P-521 parse, and no algorithm signs with them.

## 6. Not modelled, and what is next

Not modelled: examples and benchmarks; the text of errors; performance fast paths
that compute the same; the limit on the length of a whole header (other strings that
are too long are among the `Unreadable`, and StructuredFields has all seven limits);
that net/http sends userinfo as an Authorization field; the assignment to a nil
header map in `SignRequest` (`httpsig/signer.go:134`), a matter of that one
statement; PEM blocks after the first (`signing/keys.go:57`), which nothing reads;
and the errors of the serializer for Go values no parser returns.

Next, in this order:

1. On the writer of StructuredFields, that different identifiers and parameters are
   different lines, which SignatureBase takes as given: it has a line of parameters, and an
   identifier where it begins a line, as one token.
2. That two goroutines may share a Signer and a Verifier: neither is written to after
   it was made, except for the caller's slice of components, which HttpSig has.
