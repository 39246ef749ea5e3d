------------------------------- MODULE HttpSig -------------------------------
(***************************************************************************)
(* pkg/httpsig: Signer and Verifier on top of the packages they call.      *)
(*                                                                         *)
(* One side makes Signers and signs requests with them.  Headers of signed *)
(* requests then meet other contents, other headers and other Signature-   *)
(* Input members on the way: an intermediary merges or reorders header     *)
(* lines, a cache replays, a component rewrites a field.  The other side   *)
(* verifies; while a verification waits for the key resolver the clock     *)
(* goes on, keys are rotated, algorithms are registered and new signatures *)
(* are made.                                                               *)
(*                                                                         *)
(* A signature is the record [alg, of, base] of what was signed with which *)
(* secret or key pair: the cryptographic library is external, and accepts  *)
(* a signature for exactly these three (SigningExchange looks at the bytes *)
(* and at the keys the algorithms refuse).                                 *)
(***************************************************************************)
EXTENDS SignatureInput, ParamsValidation

CONSTANTS
    Messages,       \* requests as SignatureBase has them, without the two headers
    Slices,         \* the component lists applications hold on to
    SignerOptions,  \* [label, slice, alg, of, keyid, nonce, tag, announceAlg, announceCreated,
                    \* created, now, expires]; created, now and expires may be NoInstant
    VerifyOptions,  \* [label, required, alg, allowed, key, params]; see VerifyStart
    KeyRings,       \* what a key resolver answers: key id -> [key, alg]
    ForeignInputs,  \* Signature-Input members no Signer of the model writes
    Builtin, Custom,\* algorithm IDs registered before and while the program runs
    NoKey,          \* the nil key, and the secret of no signature
    Calls,          \* verifications
    MaxClock, MaxSigners, MaxSignatures  \* bounds

ASSUME HttpSigAssumption ==
    /\ Slices = [id \in DOMAIN Slices |-> Slices[id]]
    /\ \A id \in DOMAIN Slices : WellFormedList(Slices[id])
    /\ \A o \in SignerOptions :
         /\ o.slice \in DOMAIN Slices
         /\ {o.created, o.now} \subseteq Int \cup {NoInstant}
    /\ \A m \in ForeignInputs : WellFormedInput(m)
    /\ \A o \in VerifyOptions : o.params \in Options

VARIABLES
    clock,     \* the current instant
    registry,  \* the registered algorithm IDs
    slices,    \* the component lists, which their owners may write to
    signers,   \* the Signers made: [label, slice, params, alg, of, sigInput], and
               \* stamped, the instant created is taken from
    events,    \* history: every signature made, with the Signer and the message
    wire,      \* the message as it arrives: [msg, input, sig], the values of the headers
    keyring,   \* what the key resolver answers at the moment
    options,   \* the Verifier's options, NoVerifier before there is one
    calls      \* the verifications, see NewCall

vars == <<clock, registry, slices, signers, events, wire, keyring, options, calls>>

NoVerifier == [none |-> TRUE]

\* The value of one of the two headers: a dictionary, a function from labels.
NoHeader == [l \in {} |-> l]
Dictionary(label, member) == [l \in {label} |-> member]

\* A verification: the request it was given and when, the selected entry, the
\* key and the algorithm, and the base it computed.
NewCall == [pc |-> "idle", wire |-> NoHeader, started |-> 0,
            label |-> "", comps |-> <<>>, params |-> NoParams, sig |-> NoHeader,
            key |-> NoKey, named |-> "", alg |-> "", base |-> <<>>]

Init ==
    /\ clock = 0
    /\ registry = Builtin
    /\ slices = Slices
    /\ signers = {}
    /\ events = {}
    /\ \E m \in Messages : wire = [msg |-> m, input |-> NoHeader, sig |-> NoHeader]
    /\ keyring \in KeyRings
    /\ options = NoVerifier
    /\ calls = [g \in Calls |-> NewCall]

-----------------------------------------------------------------------------
(* signer.go                                                               *)

IfSet(set, value) == IF set THEN value ELSE Absent

\* Options.Created, else what Options.Now returns, else time.Now.
CreatedInstant(o) ==
    IF o.created # NoInstant THEN o.created
    ELSE IF o.now # NoInstant THEN o.now ELSE clock

\* The parameters a Signer of options o announces, fixed when it is made.
SignerParams(o) ==
    [NoParams EXCEPT
       !.created = IfSet(o.announceCreated, Int64(Unix(CreatedInstant(o)))),
       !.expires = IfSet(o.expires # NoInstant, Int64(Unix(o.expires))),
       !.nonce   = IfSet(o.nonce # "", Str(o.nonce)),
       !.alg     = IfSet(o.announceAlg, Str(o.alg)),
       !.keyid   = IfSet(o.keyid # "", Str(o.keyid)),
       !.tag     = IfSet(o.tag # "", Str(o.tag))]

DefaultLabel(label) == IF label = "" THEN "sig1" ELSE label

\* The header value is serialized here, once; the components stay the caller's
\* slice.  An algorithm and a key are required.
NewSigner ==
    /\ Cardinality(signers) < MaxSigners
    /\ \E o \in SignerOptions :
         LET input == serializeSignatureInput(slices[o.slice], SignerParams(o))
         IN  /\ o.alg # "" /\ o.of # NoKey
             /\ o.alg \in registry
             /\ input.ok
             /\ signers' = signers \cup
                  {[label |-> DefaultLabel(o.label), slice |-> o.slice,
                    params |-> SignerParams(o), alg |-> o.alg, of |-> o.of,
                    sigInput |-> input.member, stamped |-> CreatedInstant(o)]}
    /\ UNCHANGED <<clock, registry, slices, events, wire, keyring, options, calls>>

\* What signing m with s leaves in the history.
Event(s, m) ==
    [signer |-> s, msg |-> m, comps |-> slices[s.slice],
     base |-> Build(m, slices[s.slice], s.params).base]

InputOf(e) == Dictionary(e.signer.label, e.signer.sigInput)
SigOf(e)   == [alg |-> e.signer.alg, of |-> e.signer.of, base |-> e.base]

\* SignRequest: the base of the slice as it is now, the header of NewSigner.
\* Header.Set replaces the values of both headers.
SignRequest ==
    /\ Cardinality(events) < MaxSignatures
    /\ \E s \in signers, m \in Messages :
         /\ Build(m, slices[s.slice], s.params).ok
         /\ events' = events \cup {Event(s, m)}
         /\ wire' = [msg |-> m, input |-> InputOf(Event(s, m)),
                     sig |-> Dictionary(s.label, SigOf(Event(s, m)))]
    /\ UNCHANGED <<clock, registry, slices, signers, keyring, options, calls>>

\* The application writes to a list it passed to NewSigner before.
EditSlice ==
    /\ \E id \in DOMAIN slices, other \in DOMAIN slices :
         /\ Len(slices[id]) = Len(slices[other])
         /\ slices' = [slices EXCEPT ![id] = slices[other]]
    /\ UNCHANGED <<clock, registry, signers, events, wire, keyring, options, calls>>

-----------------------------------------------------------------------------
(* Between signer and verifier.                                            *)

Rewrite ==
    /\ \E m \in Messages : wire' = [wire EXCEPT !.msg = m]
    /\ UNCHANGED <<clock, registry, slices, signers, events, keyring, options, calls>>

\* Header values of signed messages come together, by themselves or merged with
\* another into one line.  The two headers need not stem from the same messages,
\* a member may be one no Signer of the model wrote, and a signature may be
\* damaged.
Damaged == [alg |-> "none", of |-> NoKey, base |-> <<>>]
InputValues == {InputOf(e) : e \in events} \cup {Dictionary("sig1", m) : m \in ForeignInputs}
SigValues   == {Dictionary(e.signer.label, SigOf(e)) : e \in events}
                 \cup {Dictionary("sig1", Damaged)}
Joined(v, w) == [l \in DOMAIN v \cup DOMAIN w |-> IF l \in DOMAIN v THEN v[l] ELSE w[l]]
Merged(V)    == {Joined(v, w) : v \in V, w \in V}

Relay ==
    /\ events # {}
    /\ \E in \in Merged(InputValues), sg \in Merged(SigValues) :
         wire' = [wire EXCEPT !.input = in, !.sig = sg]
    /\ UNCHANGED <<clock, registry, slices, signers, events, keyring, options, calls>>

-----------------------------------------------------------------------------
(* The surroundings of a running verification.                             *)

Tick ==
    /\ clock < MaxClock
    /\ clock' = clock + 1
    /\ UNCHANGED <<registry, slices, signers, events, wire, keyring, options, calls>>

RotateKeys ==
    /\ keyring' \in KeyRings
    /\ UNCHANGED <<clock, registry, slices, signers, events, wire, options, calls>>

RegisterAlgorithm ==
    /\ \E id \in Custom \ registry : registry' = registry \cup {id}
    /\ UNCHANGED <<clock, slices, signers, events, wire, keyring, options, calls>>

-----------------------------------------------------------------------------
(* verifier.go                                                             *)

\* The options hold either a key or a key resolver.
NewVerifier ==
    /\ options = NoVerifier
    /\ options' \in VerifyOptions
    /\ UNCHANGED <<clock, registry, slices, signers, events, wire, keyring, calls>>

\* A missing created is NoInstant, as ParamsValidation has it.
Stamp(value) == IF value = Absent THEN NoInstant ELSE value.int
StampsOf(params) == [created |-> Stamp(params.created), expires |-> Stamp(params.expires)]

\* The label of the options, else the only one there is; "" for an error.
SelectLabel(signatures) ==
    IF options.label # "" THEN options.label
    ELSE IF Cardinality(DOMAIN signatures) = 1
    THEN CHOOSE l \in DOMAIN signatures : TRUE
    ELSE ""

componentEqual(a, b) == a = b

\* Mutant: the required components are not looked for.
requireNothing(covered) == TRUE

validateRequiredComponents(covered) ==
    \A r \in options.required :
      \E i \in 1..Len(covered) : componentEqual(covered[i], r)

\* The algorithm the options or the parameters name, "" for none.
ParamAlg(params) == IF params.alg = Absent THEN "" ELSE params.alg.str

AlgorithmsAgree(a, b) == a = "" \/ b = "" \/ a = b
Either(a, b) == IF a # "" THEN a ELSE b

initialAlgorithm(params) == Either(options.alg, ParamAlg(params))

\* Its error: an alg parameter, be it empty, that is not the one of the options.
NoMismatch(params) ==
    options.alg # "" /\ params.alg # Absent => params.alg.str = options.alg

\* VerifyRequest up to the key resolver.  Header.Get reads the first line of each
\* header; wire has that line.
VerifyStart(g) ==
    /\ calls[g].pc = "idle" /\ options # NoVerifier
    /\ LET parsed == ParseSignatureInput(wire.input)
           label  == SelectLabel(parsed.signatures)
           entry  == parsed.signatures[label]
           call   == [calls[g] EXCEPT !.wire = wire, !.started = clock]
           passes == /\ wire.input # NoHeader /\ wire.sig # NoHeader
                     /\ parsed.ok
                     /\ label \in DOMAIN parsed.signatures
                     /\ label \in DOMAIN wire.sig
                     /\ validateRequiredComponents(entry.comps)
                     /\ ValidateSignatureParams(StampsOf(entry.params), options.params, clock) = "ok"
                     /\ NoMismatch(entry.params)
       IN  calls' = [calls EXCEPT ![g] =
                       IF ~passes THEN [call EXCEPT !.pc = "refused"]
                       ELSE [call EXCEPT !.pc = "resolving", !.label = label,
                                         !.comps = entry.comps, !.params = entry.params,
                                         !.sig = wire.sig[label]]]
    /\ UNCHANGED <<clock, registry, slices, signers, events, wire, keyring, options>>

\* What the resolver answers for the key id of the parameters.
NoAnswer == [key |-> NoKey, alg |-> ""]
Answer(params) ==
    IF options.key # NoKey THEN [key |-> options.key, alg |-> ""]
    ELSE IF params.keyid # Absent /\ params.keyid.str \in DOMAIN keyring
    THEN keyring[params.keyid.str]
    ELSE NoAnswer

\* Mutants of mergeResolvedAlgorithm: a contradiction goes unnoticed; only the
\* resolver's answer counts.
mergeWithoutCheck(algID, resolved) == Either(resolved, algID)
resolvedOnly(algID, resolved) == resolved

\* mergeResolvedAlgorithm: an algorithm the resolver names takes over, but must
\* not contradict the one known so far; "" for a contradiction.
mergeResolvedAlgorithm(algID, resolved) ==
    IF AlgorithmsAgree(algID, resolved) THEN Either(resolved, algID) ELSE ""

\* The resolver returns; the rest of resolveKeyAndAlgorithm.
ResolveKey(g) ==
    /\ calls[g].pc = "resolving"
    /\ LET call   == calls[g]
           answer == Answer(call.params)
           alg    == mergeResolvedAlgorithm(initialAlgorithm(call.params), answer.alg)
           passes == /\ answer.key # NoKey
                     /\ alg # ""
                     /\ options.allowed # {} => alg \in options.allowed
       IN  calls' = [calls EXCEPT ![g] =
                       IF ~passes THEN [call EXCEPT !.pc = "refused", !.named = answer.alg,
                                                    !.key = answer.key]
                       ELSE [call EXCEPT !.pc = "resolved", !.named = answer.alg,
                                         !.key = answer.key, !.alg = alg]]
    /\ UNCHANGED <<clock, registry, slices, signers, events, wire, keyring, options>>

\* Mutant: the result of Verify is ignored.
verifyIgnored(sig, alg, of, base) == TRUE

\* Algorithm.Verify with the resolved key.
SignatureValid(sig, alg, of, base) == sig = [alg |-> alg, of |-> of, base |-> base]

\* GetAlgorithm, base.Build and Algorithm.Verify: only the first of them reads
\* what other goroutines change.
VerifyFinish(g) ==
    /\ calls[g].pc = "resolved"
    /\ LET call   == calls[g]
           built  == Build(call.wire.msg, call.comps, call.params)
           passes == /\ call.alg \in registry
                     /\ built.ok
                     /\ SignatureValid(call.sig, call.alg, call.key, built.base)
       IN  calls' = [calls EXCEPT ![g] =
                       IF ~passes THEN [call EXCEPT !.pc = "refused"]
                       ELSE [call EXCEPT !.pc = "accepted", !.base = built.base]]
    /\ UNCHANGED <<clock, registry, slices, signers, events, wire, keyring, options>>

Next ==
    \/ NewSigner \/ SignRequest \/ EditSlice
    \/ Rewrite \/ Relay
    \/ Tick \/ RotateKeys \/ RegisterAlgorithm
    \/ NewVerifier
    \/ \E g \in Calls : VerifyStart(g) \/ ResolveKey(g) \/ VerifyFinish(g)

Spec == Init /\ [][Next]_vars

-----------------------------------------------------------------------------
Accepted(g) == calls[g].pc = "accepted"

\* The signatures an accepted call may rest on: made over the very base the call
\* computed, with the algorithm and the secret or key pair it used.
Witnesses(call) ==
    {e \in events : e.base = call.base /\ e.signer.alg = call.alg /\ e.signer.of = call.key}

\* Whatever headers meet on the way and whatever happens while the resolver
\* runs, VerifyRequest accepts only what some Signer signed: no mixed pair of
\* headers, wrong label or rotated key makes another signature pass.
Authentic == \A g \in Calls : Accepted(g) => Witnesses(calls[g]) # {}

\* The result of a verification names the components that were signed, also where
\* the signer's list was written to.  And an accepted request has, in every
\* component the verifier requires, the value the signed request had when it was
\* signed, unless a covered query parameter has a newline in it: writeComponentLine
\* does not escape one, so that it may stand for the end of a line.
CoveredUnchanged ==
    \A g \in Calls : Accepted(g) =>
      LET seen == calls[g].wire.msg
      IN  \A e \in Witnesses(calls[g]) :
            /\ calls[g].comps = e.comps
            /\ OneLineEach(seen, e.comps) =>
                 \A r \in options.required : SameValue(e.msg, seen, r)

\* The parameters in the result of a verification (created, keyid, tag...), on
\* which callers base decisions, are the ones that were signed, whichever header
\* they came with.
ParametersAreSigned ==
    \A g \in Calls : Accepted(g) =>
      \A e \in Witnesses(calls[g]) : calls[g].params = e.signer.params

\* initialAlgorithm, mergeResolvedAlgorithm and the allowed list: the algorithm
\* the signature was really made with is the one each source names that names one.
AlgorithmAgreement ==
    \A g \in Calls : Accepted(g) =>
      \A e \in Witnesses(calls[g]) :
        /\ {options.alg, ParamAlg(e.signer.params), calls[g].named} \subseteq {"", e.signer.alg}
        /\ options.allowed # {} => e.signer.alg \in options.allowed

\* A Signer's created is fixed when it is made, not when it signs: the time of its
\* making, unless its options say another.  Where the verifier limits the age and
\* reads the clock, signatures of a Signer stamped longer ago are refused, those
\* it makes right now included, and so are those of one that announces no time.
SignerIsYoung ==
    \A g \in Calls :
      Accepted(g) /\ options.params.notOlderThan > 0 /\ options.params.now = NoInstant =>
        \A e \in Witnesses(calls[g]) :
          /\ e.signer.params.created # Absent
          /\ calls[g].started - e.signer.stamped <= options.params.notOlderThan

\* What the verifier's options ask for, e has; the algorithms named agree, and the
\* header is one the parser reads (SignatureInputExchange says when).
Acceptable(call, e) ==
    /\ call.wire = [msg |-> e.msg, input |-> InputOf(e), sig |-> Dictionary(e.signer.label, SigOf(e))]
    /\ options.label \in {"", e.signer.label}
    /\ \A r \in options.required : \E i \in 1..Len(e.comps) : e.comps[i] = r
    /\ e.signer.sigInput = serializeSignatureInput(e.comps, e.signer.params).member
    /\ ParseSignatureInput(InputOf(e)).ok
    /\ ValidateSignatureParams(StampsOf(e.signer.params), options.params, call.started) = "ok"
    /\ {options.alg, ParamAlg(e.signer.params)} \subseteq {"", e.signer.alg}

\* The resolver answered with the Signer's key, and the algorithm is named.
AnsweredFor(call, e) ==
    /\ call.key = e.signer.of
    /\ call.named \in {"", e.signer.alg}
    /\ e.signer.alg \in {options.alg, ParamAlg(e.signer.params), call.named}
    /\ options.allowed # {} => e.signer.alg \in options.allowed

\* A request that arrives as the Signer left it, whose slice was not written to
\* between NewSigner and SignRequest, is not refused by a verifier whose options
\* it meets and whose resolver answers with the signer's key; a call that has no
\* label was refused before it asked the resolver.
Complete ==
    \A g \in Calls : calls[g].pc = "refused" =>
      \A e \in events :
        Acceptable(calls[g], e) => calls[g].label # "" /\ ~AnsweredFor(calls[g], e)
=============================================================================
