---------------------------- MODULE HttpSigProof ----------------------------
(***************************************************************************)
(* What VerifyRequest accepts was signed: for every set of messages,       *)
(* signers, verifier options, key rings and foreign headers, for any       *)
(* number of verifications, and whatever happens while they run.           *)
(*                                                                         *)
(* Four invariants, each an extension of the one before: HInv for what is  *)
(* authentic, CInv for what is covered, PInv for what is returned, and     *)
(* QInv for why a request is refused.                                      *)
(***************************************************************************)
EXTENDS HttpSig, SignatureBaseProof

-----------------------------------------------------------------------------
(* The invariants.                                                         *)

CallFields == {"pc", "wire", "started", "label", "comps", "params", "sig",
               "key", "named", "alg", "base"}
CallShape(c) == DOMAIN c = CallFields /\ c = [f \in CallFields |-> c[f]]

Shapes == /\ calls = [g \in Calls |-> calls[g]]
          /\ \A g \in Calls : CallShape(calls[g])
          /\ wire = [msg |-> wire.msg, input |-> wire.input, sig |-> wire.sig]

\* A signature somebody made, or none.
SigKnown(sig) == sig = Damaged \/ \E e \in events : sig = SigOf(e)

SigsKnown ==
    /\ \A l \in DOMAIN wire.sig : SigKnown(wire.sig[l])
    /\ \A g \in Calls :
         calls[g].pc \in {"resolving", "resolved", "accepted"} => SigKnown(calls[g].sig)

\* What a call has established at each stage.
Established ==
    \A g \in Calls :
      /\ calls[g].pc \in {"resolved", "accepted"} => calls[g].key # NoKey
      /\ calls[g].pc = "accepted" =>
           /\ SignatureValid(calls[g].sig, calls[g].alg, calls[g].key, calls[g].base)
           /\ Build(calls[g].wire.msg, calls[g].comps, calls[g].params)
                = [ok |-> TRUE, base |-> calls[g].base]

HInv == Shapes /\ SigsKnown /\ Established

\* What the second invariant adds: every list of components is well formed,
\* wherever it has been copied to, each event's base is the one Build computed,
\* and a running call covers what the verifier requires.
ListsWellFormed ==
    /\ slices = [id \in DOMAIN Slices |-> slices[id]]
    /\ \A id \in DOMAIN Slices : WellFormedList(slices[id])
    /\ \A s \in signers : s.slice \in DOMAIN Slices /\ WellFormedInput(s.sigInput)
    /\ \A l \in DOMAIN wire.input : WellFormedInput(wire.input[l])

EventsBuilt ==
    \A e \in events :
      /\ WellFormedList(e.comps) /\ WellFormedInput(e.signer.sigInput)
      /\ Build(e.msg, e.comps, e.signer.params) = [ok |-> TRUE, base |-> e.base]

CallsCover ==
    \A g \in Calls :
      calls[g].pc \in {"resolving", "resolved", "accepted"} =>
        /\ options # NoVerifier
        /\ WellFormedList(calls[g].comps)
        /\ validateRequiredComponents(calls[g].comps)

CInv == HInv /\ ListsWellFormed /\ EventsBuilt /\ CallsCover

\* What the third invariant adds: a Signer announces the second it is stamped with
\* or none, and a running call holds what the checks found of its parameters and its
\* algorithm.
SignerKnown(s) ==
    /\ s.stamped \in Int /\ ParamsShape(s.params)
    /\ s.params.created \in {Absent, Int64(Unix(s.stamped))}

SignersKnown ==
    /\ clock \in Nat
    /\ options # NoVerifier => options \in VerifyOptions
    /\ \A s \in signers : SignerKnown(s)
    /\ \A e \in events : SignerKnown(e.signer)

ParamsChecked(c) ==
    /\ ParamsShape(c.params) /\ c.started \in Nat
    /\ NoMismatch(c.params)
    /\ ValidateSignatureParams(StampsOf(c.params), options.params, c.started) = "ok"

AlgChosen(c) ==
    /\ c.alg = mergeResolvedAlgorithm(initialAlgorithm(c.params), c.named)
    /\ c.alg # ""
    /\ options.allowed # {} => c.alg \in options.allowed

CallsChecked ==
    \A g \in Calls :
      /\ calls[g].pc \in {"resolving", "resolved", "accepted"} => ParamsChecked(calls[g])
      /\ calls[g].pc \in {"resolved", "accepted"} => AlgChosen(calls[g])

PInv == CInv /\ SignersKnown /\ CallsChecked

\* What the fourth invariant adds: a Signer has a label, a key and an algorithm
\* that stays registered, and announces this one or none; and a refused call
\* keeps what it was refused for.
SignerComplete(s) ==
    /\ TypedParams(s.params) /\ s.params.alg \in {Absent, Str(s.alg)}
    /\ s.label # "" /\ s.of # NoKey /\ s.alg # "" /\ s.alg \in registry

SignersComplete == /\ \A s \in signers : SignerComplete(s)
                   /\ \A e \in events : SignerComplete(e.signer)

\* The label and the entry VerifyStart selects of the headers w, and its checks.
LabelOf(w) == SelectLabel(ParseSignatureInput(w.input).signatures)
EntryOf(w) == ParseSignatureInput(w.input).signatures[LabelOf(w)]

StartPasses(w, now) ==
    /\ w.input # NoHeader /\ w.sig # NoHeader
    /\ ParseSignatureInput(w.input).ok
    /\ LabelOf(w) \in DOMAIN ParseSignatureInput(w.input).signatures
    /\ LabelOf(w) \in DOMAIN w.sig
    /\ validateRequiredComponents(EntryOf(w).comps)
    /\ ValidateSignatureParams(StampsOf(EntryOf(w).params), options.params, now) = "ok"
    /\ NoMismatch(EntryOf(w).params)

Selected(c) ==
    /\ c.label = LabelOf(c.wire) /\ c.sig = c.wire.sig[c.label]
    /\ c.comps = EntryOf(c.wire).comps /\ c.params = EntryOf(c.wire).params

\* The checks of ResolveKey, and those of VerifyFinish that do not depend on when.
ResolvePasses(c) ==
    LET alg == mergeResolvedAlgorithm(initialAlgorithm(c.params), c.named)
    IN  /\ c.key # NoKey /\ alg # ""
        /\ options.allowed # {} => alg \in options.allowed

FinishPasses(c) ==
    LET built == Build(c.wire.msg, c.comps, c.params)
    IN  built.ok /\ SignatureValid(c.sig, c.alg, c.key, built.base)

Refusal(c) ==
    \/ ~StartPasses(c.wire, c.started)
    \/ Selected(c) /\ ~ResolvePasses(c)
    \/ /\ Selected(c) /\ ~FinishPasses(c)
       /\ c.alg = mergeResolvedAlgorithm(initialAlgorithm(c.params), c.named)

CallsExplained ==
    \A g \in Calls :
      /\ calls[g].pc # "idle" => options # NoVerifier
      /\ calls[g].pc \in {"resolving", "resolved"} => Selected(calls[g])
      /\ calls[g].pc = "refused" => Refusal(calls[g])

QInv == PInv /\ SignersComplete /\ CallsExplained

-----------------------------------------------------------------------------
(* The first invariant.                                                    *)

WireShape == wire = [msg |-> wire.msg, input |-> wire.input, sig |-> wire.sig]
WireKnown == \A l \in DOMAIN wire.sig : SigKnown(wire.sig[l])

\* A signature that was known stays known, since no event is forgotten.
LEMMA KnownStays ==
    ASSUME events \subseteq events', NEW sig, SigKnown(sig)
    PROVE  \/ sig = Damaged
           \/ \E e \in events' : sig = SigOf(e)
  BY DEF SigKnown

\* A step that leaves the verifications alone keeps the invariant if what it puts
\* on the wire was signed.
LEMMA Bystander ==
    ASSUME HInv, events \subseteq events', calls' = calls, WireShape', WireKnown'
    PROVE  HInv'
  <1>1. Shapes'
    BY DEF HInv, Shapes, CallShape, WireShape
  <1>2. SigsKnown'
    <2>1. ASSUME NEW g \in Calls, calls[g].pc \in {"resolving", "resolved", "accepted"}
          PROVE  SigKnown(calls[g].sig)'
      <3>1. SigKnown(calls[g].sig)
        BY <2>1 DEF HInv, SigsKnown
      <3> QED
        BY <3>1, KnownStays DEF SigKnown, SigOf, Damaged
    <2> QED
      BY <2>1 DEF SigsKnown, WireKnown
  <1>3. Established'
    BY DEF HInv, Established, SignatureValid
  <1> QED
    BY <1>1, <1>2, <1>3 DEF HInv

\* The same for a step that leaves the wire alone, too.
LEMMA Onlooker ==
    ASSUME HInv, UNCHANGED <<events, wire, calls>>
    PROVE  HInv'
  <1>1. WireShape' /\ WireKnown'
    BY DEF HInv, Shapes, SigsKnown, WireShape, WireKnown, SigKnown, SigOf, Damaged
  <1> QED
    BY <1>1, Bystander

LEMMA InitHolds == Init => HInv
  <1> SUFFICES ASSUME Init PROVE HInv
    OBVIOUS
  <1>1. PICK m \in Messages : wire = [msg |-> m, input |-> NoHeader, sig |-> NoHeader]
    BY DEF Init
  <1>2. DOMAIN NoHeader = {}
    BY DEF NoHeader
  <1>3. calls = [g \in Calls |-> NewCall]
    BY DEF Init
  <1>4. Shapes
    BY <1>1, <1>3 DEF Shapes, CallShape, CallFields, NewCall
  <1>5. \A g \in Calls : calls[g].pc = "idle"
    BY <1>3 DEF NewCall
  <1>6. SigsKnown
    BY <1>1, <1>2, <1>5 DEF SigsKnown
  <1>7. Established
    BY <1>5 DEF Established
  <1> QED
    BY <1>4, <1>6, <1>7 DEF HInv

\* A step of verification g that changes nothing else.
LEMMA OneCall ==
    ASSUME HInv, UNCHANGED <<events, wire>>, NEW g \in Calls, NEW c,
           calls' = [calls EXCEPT ![g] = c], CallShape(c),
           c.pc \in {"resolving", "resolved", "accepted"} => SigKnown(c.sig),
           c.pc \in {"resolved", "accepted"} => c.key # NoKey,
           c.pc = "accepted" =>
             /\ SignatureValid(c.sig, c.alg, c.key, c.base)
             /\ Build(c.wire.msg, c.comps, c.params) = [ok |-> TRUE, base |-> c.base]
    PROVE  HInv'
  <1>1. \A h \in Calls : calls'[h] = IF h = g THEN c ELSE calls[h]
    BY DEF HInv, Shapes
  <1>2. Shapes'
    BY <1>1 DEF HInv, Shapes, CallShape
  <1>3. SigsKnown'
    <2>1. ASSUME NEW sig, SigKnown(sig) PROVE SigKnown(sig)'
      BY <2>1 DEF SigKnown, SigOf, Damaged
    <2>2. WireKnown'
      BY <2>1 DEF HInv, SigsKnown, WireKnown, SigKnown, SigOf, Damaged
    <2>3. ASSUME NEW h \in Calls, calls'[h].pc \in {"resolving", "resolved", "accepted"}
          PROVE  SigKnown(calls[h].sig)'
      <3>1. SigKnown(calls'[h].sig)
        BY <1>1, <2>3 DEF HInv, SigsKnown
      <3> QED
        BY <3>1 DEF SigKnown, SigOf, Damaged
    <2> QED
      BY <2>2, <2>3 DEF SigsKnown, WireKnown
  <1>4. Established'
    BY <1>1 DEF HInv, Established, SignatureValid
  <1> QED
    BY <1>2, <1>3, <1>4 DEF HInv

\* The stages of a verification.
LEMMA StartKeeps == ASSUME HInv, NEW g \in Calls, VerifyStart(g) PROVE HInv'
  <1> DEFINE parsed == ParseSignatureInput(wire.input)
             label  == SelectLabel(parsed.signatures)
             entry  == parsed.signatures[label]
             call   == [calls[g] EXCEPT !.wire = wire, !.started = clock]
             failed == [call EXCEPT !.pc = "refused"]
             going  == [call EXCEPT !.pc = "resolving", !.label = label,
                                    !.comps = entry.comps, !.params = entry.params,
                                    !.sig = wire.sig[label]]
  <1>1. CallShape(calls[g])
    BY DEF HInv, Shapes
  <1>2. CallShape(call)
    BY <1>1 DEF CallShape, CallFields
  <1>3. CallShape(failed) /\ failed.pc = "refused"
    BY <1>2 DEF CallShape, CallFields
  <1>4. CallShape(going) /\ going.pc = "resolving" /\ going.sig = wire.sig[label]
    BY <1>2 DEF CallShape, CallFields
  <1> HIDE DEF parsed, label, entry, call, failed, going
  <1>5. /\ UNCHANGED <<events, wire>>
        /\ \/ calls' = [calls EXCEPT ![g] = failed]
           \/ label \in DOMAIN wire.sig /\ calls' = [calls EXCEPT ![g] = going]
    BY DEF VerifyStart, parsed, label, entry, call, failed, going
  <1>6. CASE calls' = [calls EXCEPT ![g] = failed]
    BY <1>3, <1>5, <1>6, OneCall
  <1>7. CASE label \in DOMAIN wire.sig /\ calls' = [calls EXCEPT ![g] = going]
    <2>1. SigKnown(going.sig)
      BY <1>4, <1>7 DEF HInv, SigsKnown
    <2> QED
      BY <1>4, <1>5, <1>7, <2>1, OneCall
  <1> QED
    BY <1>5, <1>6, <1>7

LEMMA ResolveKeeps == ASSUME HInv, NEW g \in Calls, ResolveKey(g) PROVE HInv'
  <1> DEFINE call   == calls[g]
             answer == Answer(call.params)
             alg    == mergeResolvedAlgorithm(initialAlgorithm(call.params), answer.alg)
             failed == [call EXCEPT !.pc = "refused", !.named = answer.alg, !.key = answer.key]
             going  == [call EXCEPT !.pc = "resolved", !.named = answer.alg,
                                    !.key = answer.key, !.alg = alg]
  <1>1. CallShape(call)
    BY DEF HInv, Shapes
  <1>2. CallShape(failed) /\ failed.pc = "refused"
    BY <1>1 DEF CallShape, CallFields
  <1>3. CallShape(going) /\ going.pc = "resolved" /\ going.sig = call.sig
        /\ going.key = answer.key
    BY <1>1 DEF CallShape, CallFields
  <1>4. call.pc = "resolving"
    BY DEF ResolveKey
  <1>5. SigKnown(call.sig)
    BY <1>4 DEF HInv, SigsKnown
  <1> HIDE DEF call, answer, alg, failed, going
  <1>6. /\ UNCHANGED <<events, wire>>
        /\ \/ calls' = [calls EXCEPT ![g] = failed]
           \/ answer.key # NoKey /\ calls' = [calls EXCEPT ![g] = going]
    BY DEF ResolveKey, call, answer, alg, failed, going
  <1>7. CASE calls' = [calls EXCEPT ![g] = failed]
    BY <1>2, <1>6, <1>7, OneCall
  <1>8. CASE answer.key # NoKey /\ calls' = [calls EXCEPT ![g] = going]
    BY <1>3, <1>5, <1>6, <1>8, OneCall
  <1> QED
    BY <1>6, <1>7, <1>8

LEMMA FinishKeeps == ASSUME HInv, NEW g \in Calls, VerifyFinish(g) PROVE HInv'
  <1> DEFINE call   == calls[g]
             built  == Build(call.wire.msg, call.comps, call.params)
             failed == [call EXCEPT !.pc = "refused"]
             done   == [call EXCEPT !.pc = "accepted", !.base = built.base]
  <1>1. CallShape(call) /\ call.pc = "resolved"
    BY DEF HInv, Shapes, VerifyFinish
  <1>2. SigKnown(call.sig) /\ call.key # NoKey
    BY <1>1 DEF HInv, SigsKnown, Established
  <1>3. CallShape(failed) /\ failed.pc = "refused"
    BY <1>1 DEF CallShape, CallFields
  <1>4. /\ CallShape(done) /\ done.pc = "accepted"
        /\ done.sig = call.sig /\ done.key = call.key /\ done.alg = call.alg
        /\ done.wire = call.wire /\ done.comps = call.comps /\ done.params = call.params
        /\ done.base = built.base
    BY <1>1 DEF CallShape, CallFields
  <1>5. built.ok => built = [ok |-> TRUE, base |-> built.base]
    BY BuildResult
  <1>6. /\ UNCHANGED <<events, wire>>
        /\ \/ calls' = [calls EXCEPT ![g] = failed]
           \/ /\ built.ok /\ SignatureValid(call.sig, call.alg, call.key, built.base)
              /\ calls' = [calls EXCEPT ![g] = done]
    BY DEF VerifyFinish
  <1>7. Build(done.wire.msg, done.comps, done.params) = built
    BY <1>4
  <1> HIDE DEF call, built, failed, done
  <1>8. CASE calls' = [calls EXCEPT ![g] = failed]
    BY <1>3, <1>6, <1>8, OneCall
  <1>9. CASE /\ built.ok /\ SignatureValid(call.sig, call.alg, call.key, built.base)
             /\ calls' = [calls EXCEPT ![g] = done]
    <2>1. SignatureValid(done.sig, done.alg, done.key, done.base)
      BY <1>4, <1>9
    <2>2. Build(done.wire.msg, done.comps, done.params) = [ok |-> TRUE, base |-> done.base]
      BY <1>4, <1>5, <1>7, <1>9
    <2> QED
      BY <1>2, <1>4, <1>6, <1>9, <2>1, <2>2, OneCall
  <1> QED
    BY <1>6, <1>8, <1>9

LEMMA SignKeeps == ASSUME HInv, SignRequest PROVE HInv'
  <1>1. PICK s \in signers, m \in Messages :
          /\ events' = events \cup {Event(s, m)}
          /\ wire' = [msg |-> m, input |-> InputOf(Event(s, m)),
                      sig |-> Dictionary(s.label, SigOf(Event(s, m)))]
    BY DEF SignRequest
  <1>2. calls' = calls /\ events \subseteq events' /\ WireShape'
    BY <1>1 DEF SignRequest, WireShape
  <1>3. WireKnown'
    <2>1. \A l \in DOMAIN wire'.sig : wire'.sig[l] = SigOf(Event(s, m))
      BY <1>1 DEF Dictionary
    <2>2. Event(s, m) \in events'
      BY <1>1
    <2> QED
      BY <2>1, <2>2 DEF WireKnown, SigKnown, SigOf, Event
  <1> QED
    BY <1>2, <1>3, Bystander

LEMMA RelayKeeps == ASSUME HInv, Relay PROVE HInv'
  <1>1. PICK in \in Merged(InputValues), sg \in Merged(SigValues) :
          wire' = [wire EXCEPT !.input = in, !.sig = sg]
    BY DEF Relay
  <1>2. calls' = calls /\ events' = events
    BY DEF Relay
  <1>3. wire'.sig = sg /\ WireShape'
    BY <1>1 DEF HInv, Shapes, WireShape
  <1>4. \A v \in SigValues : \A l \in DOMAIN v : SigKnown(v[l])
    BY DEF SigValues, Dictionary, SigKnown
  <1>5. \A l \in DOMAIN sg : SigKnown(sg[l])
    <2>1. PICK v \in SigValues, w \in SigValues : sg = Joined(v, w)
      BY DEF Merged
    <2> QED
      BY <1>4, <2>1 DEF Joined
  <1>6. WireKnown'
    BY <1>2, <1>3, <1>5 DEF WireKnown, SigKnown, SigOf, Damaged
  <1> QED
    BY <1>2, <1>3, <1>6, Bystander

LEMMA RewriteKeeps == ASSUME HInv, Rewrite PROVE HInv'
  <1>1. PICK m \in Messages : wire' = [wire EXCEPT !.msg = m]
    BY DEF Rewrite
  <1>2. calls' = calls /\ events' = events
    BY DEF Rewrite
  <1>3. wire'.sig = wire.sig /\ WireShape'
    BY <1>1 DEF HInv, Shapes, WireShape
  <1>4. WireKnown'
    BY <1>2, <1>3 DEF HInv, SigsKnown, WireKnown, SigKnown, SigOf, Damaged
  <1> QED
    BY <1>2, <1>3, <1>4, Bystander

LEMMA NextKeeps == HInv /\ [Next]_vars => HInv'
  <1> SUFFICES ASSUME HInv, [Next]_vars PROVE HInv'
    OBVIOUS
  <1>1. CASE \/ UNCHANGED vars \/ NewSigner \/ EditSlice \/ Tick \/ RotateKeys
             \/ RegisterAlgorithm \/ NewVerifier
    <2>1. UNCHANGED <<events, wire, calls>>
      BY <1>1 DEF vars, NewSigner, EditSlice, Tick, RotateKeys, RegisterAlgorithm, NewVerifier
    <2> QED
      BY <2>1, Onlooker
  <1>2. CASE SignRequest
    BY <1>2, SignKeeps
  <1>3. CASE Rewrite
    BY <1>3, RewriteKeeps
  <1>4. CASE Relay
    BY <1>4, RelayKeeps
  <1>5. CASE \E g \in Calls : VerifyStart(g) \/ ResolveKey(g) \/ VerifyFinish(g)
    BY <1>5, StartKeeps, ResolveKeeps, FinishKeeps
  <1> QED
    BY <1>1, <1>2, <1>3, <1>4, <1>5 DEF Next

THEOREM HttpSigInvariant == Spec => []HInv
  BY InitHolds, NextKeeps, PTL DEF Spec

\* VerifyRequest accepts only what a Signer made: with the key and the algorithm
\* the verifier used, over the base it computed.
THEOREM AcceptedIsAuthentic == Spec => []Authentic
  <1>1. HInv => Authentic
    <2> SUFFICES ASSUME HInv, NEW g \in Calls, Accepted(g)
                 PROVE  Witnesses(calls[g]) # {}
      BY DEF Authentic
    <2>1. /\ SigKnown(calls[g].sig) /\ calls[g].key # NoKey
          /\ calls[g].sig = [alg |-> calls[g].alg, of |-> calls[g].key, base |-> calls[g].base]
      BY DEF HInv, SigsKnown, Established, Accepted, SignatureValid
    <2>2. PICK e \in events : calls[g].sig = SigOf(e)
      BY <2>1 DEF SigKnown, Damaged
    <2>3. e \in Witnesses(calls[g])
      BY <2>1, <2>2 DEF Witnesses, SigOf
    <2> QED
      BY <2>3
  <1> QED
    BY <1>1, HttpSigInvariant, PTL

-----------------------------------------------------------------------------
(* The second invariant.  The components a verifier requires have, in      *)
(* every request it accepts, the values that were signed.  Three steps     *)
(* lead there: lists of components stay well formed through serializer     *)
(* and parser; two equal signature bases name the same well-formed         *)
(* components; and equal lines of a base hold equal values.                *)

LEMMA CInitHolds == Init => CInv
  <1> SUFFICES ASSUME Init PROVE CInv
    OBVIOUS
  <1>1. HInv
    BY InitHolds
  <1>2. PICK m \in Messages : wire = [msg |-> m, input |-> NoHeader, sig |-> NoHeader]
    BY DEF Init
  <1>3. slices = Slices /\ signers = {} /\ events = {} /\ calls = [g \in Calls |-> NewCall]
    BY DEF Init
  <1>4. DOMAIN NoHeader = {}
    BY DEF NoHeader
  <1>5. ListsWellFormed
    BY <1>2, <1>3, <1>4, HttpSigAssumption DEF ListsWellFormed
  <1>6. EventsBuilt
    BY <1>3 DEF EventsBuilt
  <1>7. CallsCover
    BY <1>3 DEF CallsCover, NewCall
  <1> QED
    BY <1>1, <1>5, <1>6, <1>7 DEF CInv

LEMMA CNewSigner == ASSUME CInv, NewSigner PROVE CInv'
  <1>1. PICK o \in SignerOptions :
          /\ serializeSignatureInput(slices[o.slice], SignerParams(o)).ok
          /\ signers' = signers \cup
               {[label |-> DefaultLabel(o.label), slice |-> o.slice,
                 params |-> SignerParams(o), alg |-> o.alg, of |-> o.of,
                 sigInput |-> serializeSignatureInput(slices[o.slice], SignerParams(o)).member,
                 stamped |-> CreatedInstant(o)]}
    BY DEF NewSigner
  <1>2. UNCHANGED <<slices, events, wire, options, calls>>
    BY DEF NewSigner
  <1>3. o.slice \in DOMAIN Slices /\ WellFormedList(slices[o.slice])
    BY HttpSigAssumption DEF CInv, ListsWellFormed
  <1>4. WellFormedInput(serializeSignatureInput(slices[o.slice], SignerParams(o)).member)
    BY <1>1, <1>3, WrittenWellFormed
  <1>5. ListsWellFormed'
    BY <1>1, <1>2, <1>3, <1>4 DEF CInv, ListsWellFormed
  <1>6. EventsBuilt' /\ CallsCover'
    BY <1>2 DEF CInv, EventsBuilt, CallsCover, validateRequiredComponents
  <1>7. HInv'
    BY <1>2, Onlooker DEF CInv
  <1> QED
    BY <1>5, <1>6, <1>7 DEF CInv

LEMMA CSign == ASSUME CInv, SignRequest PROVE CInv'
  <1>1. PICK s \in signers, m \in Messages :
          /\ Build(m, slices[s.slice], s.params).ok
          /\ events' = events \cup {Event(s, m)}
          /\ wire' = [msg |-> m, input |-> InputOf(Event(s, m)),
                      sig |-> Dictionary(s.label, SigOf(Event(s, m)))]
    BY DEF SignRequest
  <1>2. UNCHANGED <<slices, signers, options, calls>>
    BY DEF SignRequest
  <1>3. WellFormedList(slices[s.slice]) /\ WellFormedInput(s.sigInput)
    BY DEF CInv, ListsWellFormed
  <1>4. Build(m, slices[s.slice], s.params) =
          [ok |-> TRUE, base |-> Build(m, slices[s.slice], s.params).base]
    BY <1>1, BuildResult
  <1>5. /\ Event(s, m).comps = slices[s.slice] /\ Event(s, m).msg = m
        /\ Event(s, m).signer = s
        /\ Event(s, m).base = Build(m, slices[s.slice], s.params).base
    BY DEF Event
  <1>6. EventsBuilt'
    <2>1. ASSUME NEW e \in events'
          PROVE  /\ WellFormedList(e.comps) /\ WellFormedInput(e.signer.sigInput)
                 /\ Build(e.msg, e.comps, e.signer.params) = [ok |-> TRUE, base |-> e.base]
      <3>1. CASE e \in events
        BY <3>1 DEF CInv, EventsBuilt
      <3>2. CASE e = Event(s, m)
        BY <1>3, <1>4, <1>5, <3>2
      <3> QED
        BY <1>1, <3>1, <3>2
    <2> QED
      BY <2>1 DEF EventsBuilt
  <1>7. \A l \in DOMAIN wire'.input : WellFormedInput(wire'.input[l])
    BY <1>1, <1>3, <1>5 DEF InputOf, Dictionary
  <1>8. ListsWellFormed'
    BY <1>2, <1>7 DEF CInv, ListsWellFormed
  <1>9. CallsCover'
    BY <1>2 DEF CInv, CallsCover, validateRequiredComponents
  <1>10. HInv'
    BY SignKeeps DEF CInv
  <1> QED
    BY <1>6, <1>8, <1>9, <1>10 DEF CInv

LEMMA CEditSlice == ASSUME CInv, EditSlice PROVE CInv'
  <1>1. PICK id \in DOMAIN slices, other \in DOMAIN slices :
          slices' = [slices EXCEPT ![id] = slices[other]]
    BY DEF EditSlice
  <1>2. UNCHANGED <<signers, events, wire, options, calls>>
    BY DEF EditSlice
  <1>3. ListsWellFormed'
    BY <1>1, <1>2 DEF CInv, ListsWellFormed
  <1>4. EventsBuilt' /\ CallsCover'
    BY <1>2 DEF CInv, EventsBuilt, CallsCover, validateRequiredComponents
  <1>5. HInv'
    BY <1>2, Onlooker DEF CInv
  <1> QED
    BY <1>3, <1>4, <1>5 DEF CInv

LEMMA CRelay == ASSUME CInv, Relay PROVE CInv'
  <1>1. PICK in \in Merged(InputValues), sg \in Merged(SigValues) :
          wire' = [wire EXCEPT !.input = in, !.sig = sg]
    BY DEF Relay
  <1>2. UNCHANGED <<slices, signers, events, options, calls>>
    BY DEF Relay
  <1>3. \A v \in InputValues : \A l \in DOMAIN v : WellFormedInput(v[l])
    BY HttpSigAssumption DEF CInv, EventsBuilt, InputValues, InputOf, Dictionary
  <1>4. \A l \in DOMAIN in : WellFormedInput(in[l])
    <2>1. PICK v \in InputValues, w \in InputValues : in = Joined(v, w)
      BY DEF Merged
    <2> QED
      BY <1>3, <2>1 DEF Joined
  <1>5. wire'.input = in
    BY <1>1 DEF CInv, HInv, Shapes
  <1>6. ListsWellFormed'
    BY <1>2, <1>4, <1>5 DEF CInv, ListsWellFormed
  <1>7. EventsBuilt' /\ CallsCover'
    BY <1>2 DEF CInv, EventsBuilt, CallsCover, validateRequiredComponents
  <1>8. HInv'
    BY RelayKeeps DEF CInv
  <1> QED
    BY <1>6, <1>7, <1>8 DEF CInv

LEMMA CRewrite == ASSUME CInv, Rewrite PROVE CInv'
  <1>1. PICK m \in Messages : wire' = [wire EXCEPT !.msg = m]
    BY DEF Rewrite
  <1>2. UNCHANGED <<slices, signers, events, options, calls>>
    BY DEF Rewrite
  <1>3. wire'.input = wire.input
    BY <1>1 DEF CInv, HInv, Shapes
  <1>4. ListsWellFormed'
    BY <1>2, <1>3 DEF CInv, ListsWellFormed
  <1>5. EventsBuilt' /\ CallsCover'
    BY <1>2 DEF CInv, EventsBuilt, CallsCover, validateRequiredComponents
  <1>6. HInv'
    BY RewriteKeeps DEF CInv
  <1> QED
    BY <1>4, <1>5, <1>6 DEF CInv

\* A stage of verification g that fails, or goes on with its components.
LEMMA COneCall ==
    ASSUME CInv, HInv', UNCHANGED <<slices, signers, events, wire, options>>,
           NEW g \in Calls, NEW c, calls' = [calls EXCEPT ![g] = c],
           c.pc \in {"resolving", "resolved", "accepted"} =>
             /\ options # NoVerifier
             /\ WellFormedList(c.comps)
             /\ validateRequiredComponents(c.comps)
    PROVE  CInv'
  <1>1. \A h \in Calls : calls'[h] = IF h = g THEN c ELSE calls[h]
    BY DEF CInv, HInv, Shapes
  <1>2. CallsCover'
    BY <1>1 DEF CInv, CallsCover, validateRequiredComponents
  <1>3. ListsWellFormed' /\ EventsBuilt'
    BY DEF CInv, ListsWellFormed, EventsBuilt
  <1> QED
    BY <1>2, <1>3 DEF CInv

LEMMA CVerifyStart == ASSUME CInv, NEW g \in Calls, VerifyStart(g) PROVE CInv'
  <1> DEFINE parsed == ParseSignatureInput(wire.input)
             label  == SelectLabel(parsed.signatures)
             entry  == parsed.signatures[label]
             call   == [calls[g] EXCEPT !.wire = wire, !.started = clock]
             failed == [call EXCEPT !.pc = "refused"]
             going  == [call EXCEPT !.pc = "resolving", !.label = label,
                                    !.comps = entry.comps, !.params = entry.params,
                                    !.sig = wire.sig[label]]
  <1>1. CallShape(calls[g])
    BY DEF CInv, HInv, Shapes
  <1>2. CallShape(call)
    BY <1>1 DEF CallShape, CallFields
  <1>3. failed.pc = "refused" /\ going.comps = entry.comps
    BY <1>2 DEF CallShape, CallFields
  <1>4. parsed.ok /\ label \in DOMAIN parsed.signatures => WellFormedList(entry.comps)
    BY ParsedWellFormed DEF CInv, ListsWellFormed
  <1> HIDE DEF parsed, label, entry, call, failed, going
  <1>5. /\ UNCHANGED <<slices, signers, events, wire, options>>
        /\ options # NoVerifier
        /\ \/ calls' = [calls EXCEPT ![g] = failed]
           \/ /\ parsed.ok /\ label \in DOMAIN parsed.signatures
              /\ validateRequiredComponents(entry.comps)
              /\ calls' = [calls EXCEPT ![g] = going]
    BY DEF VerifyStart, parsed, label, entry, call, failed, going
  <1>6. HInv'
    BY StartKeeps DEF CInv
  <1>7. CASE calls' = [calls EXCEPT ![g] = failed]
    BY <1>3, <1>5, <1>6, <1>7, COneCall
  <1>8. CASE /\ parsed.ok /\ label \in DOMAIN parsed.signatures
             /\ validateRequiredComponents(entry.comps)
             /\ calls' = [calls EXCEPT ![g] = going]
    BY <1>3, <1>4, <1>5, <1>6, <1>8, COneCall
  <1> QED
    BY <1>5, <1>7, <1>8

\* The later stages keep the components of the call.
LEMMA CLaterStage ==
    ASSUME CInv, HInv', UNCHANGED <<slices, signers, events, wire, options>>,
           NEW g \in Calls, calls[g].pc \in {"resolving", "resolved"},
           NEW c, calls' = [calls EXCEPT ![g] = c], c.comps = calls[g].comps
    PROVE  CInv'
  <1>1. /\ options # NoVerifier
        /\ WellFormedList(c.comps) /\ validateRequiredComponents(c.comps)
    BY DEF CInv, CallsCover
  <1> QED
    BY <1>1, COneCall

LEMMA CResolve == ASSUME CInv, NEW g \in Calls, ResolveKey(g) PROVE CInv'
  <1> DEFINE call   == calls[g]
             answer == Answer(call.params)
             alg    == mergeResolvedAlgorithm(initialAlgorithm(call.params), answer.alg)
             failed == [call EXCEPT !.pc = "refused", !.named = answer.alg, !.key = answer.key]
             going  == [call EXCEPT !.pc = "resolved", !.named = answer.alg,
                                    !.key = answer.key, !.alg = alg]
  <1>1. CallShape(call)
    BY DEF CInv, HInv, Shapes
  <1>2. failed.comps = call.comps /\ going.comps = call.comps
    BY <1>1 DEF CallShape, CallFields
  <1> HIDE DEF answer, alg, failed, going
  <1>3. /\ call.pc = "resolving"
        /\ UNCHANGED <<slices, signers, events, wire, options>>
        /\ calls' = [calls EXCEPT ![g] = failed] \/ calls' = [calls EXCEPT ![g] = going]
    BY DEF ResolveKey, answer, alg, failed, going
  <1>4. HInv'
    BY ResolveKeeps DEF CInv
  <1> QED
    BY <1>2, <1>3, <1>4, CLaterStage

LEMMA CFinish == ASSUME CInv, NEW g \in Calls, VerifyFinish(g) PROVE CInv'
  <1> DEFINE call   == calls[g]
             built  == Build(call.wire.msg, call.comps, call.params)
             failed == [call EXCEPT !.pc = "refused"]
             done   == [call EXCEPT !.pc = "accepted", !.base = built.base]
  <1>1. CallShape(call)
    BY DEF CInv, HInv, Shapes
  <1>2. failed.comps = call.comps /\ done.comps = call.comps
    BY <1>1 DEF CallShape, CallFields
  <1> HIDE DEF built, failed, done
  <1>3. /\ call.pc = "resolved"
        /\ UNCHANGED <<slices, signers, events, wire, options>>
        /\ calls' = [calls EXCEPT ![g] = failed] \/ calls' = [calls EXCEPT ![g] = done]
    BY DEF VerifyFinish, built, failed, done
  <1>4. HInv'
    BY FinishKeeps DEF CInv
  <1> QED
    BY <1>2, <1>3, <1>4, CLaterStage

\* The options are set once, before any verification runs.
LEMMA CNewVerifier == ASSUME CInv, NewVerifier PROVE CInv'
  <1>1. options = NoVerifier /\ UNCHANGED <<slices, signers, events, wire, calls>>
    BY DEF NewVerifier
  <1>2. CallsCover'
    BY <1>1 DEF CInv, CallsCover
  <1>3. ListsWellFormed' /\ EventsBuilt'
    BY <1>1 DEF CInv, ListsWellFormed, EventsBuilt
  <1>4. HInv'
    BY <1>1, Onlooker DEF CInv
  <1> QED
    BY <1>2, <1>3, <1>4 DEF CInv

LEMMA CNext == CInv /\ [Next]_vars => CInv'
  <1> SUFFICES ASSUME CInv, [Next]_vars PROVE CInv'
    OBVIOUS
  <1>1. CASE UNCHANGED vars \/ Tick \/ RotateKeys \/ RegisterAlgorithm
    <2>1. UNCHANGED <<slices, signers, events, wire, options, calls>>
      BY <1>1 DEF vars, Tick, RotateKeys, RegisterAlgorithm
    <2>2. HInv'
      BY <2>1, Onlooker DEF CInv
    <2> QED
      BY <2>1, <2>2 DEF CInv, ListsWellFormed, EventsBuilt, CallsCover,
                        validateRequiredComponents
  <1>2. CASE NewSigner \/ SignRequest \/ EditSlice
    BY <1>2, CNewSigner, CSign, CEditSlice
  <1>3. CASE Rewrite \/ Relay
    BY <1>3, CRewrite, CRelay
  <1>4. CASE NewVerifier
    BY <1>4, CNewVerifier
  <1>5. CASE \E g \in Calls : VerifyStart(g) \/ ResolveKey(g) \/ VerifyFinish(g)
    BY <1>5, CVerifyStart, CResolve, CFinish
  <1> QED
    BY <1>1, <1>2, <1>3, <1>4, <1>5 DEF Next

THEOREM CoverageInvariant == Spec => []CInv
  BY CInitHolds, CNext, PTL DEF Spec

\* The components of the result of an accepted request are the ones that were
\* signed; and the components the verifier requires have the values they had then,
\* where no value of the request is broken over lines.
THEOREM RequiredComponentsCovered == Spec => []CoveredUnchanged
  <1>1. CInv => CoveredUnchanged
    <2> SUFFICES ASSUME CInv, NEW g \in Calls, Accepted(g), NEW e \in Witnesses(calls[g])
                 PROVE  /\ calls[g].comps = e.comps
                        /\ OneLineEach(calls[g].wire.msg, e.comps) =>
                             \A r \in options.required : SameValue(e.msg, calls[g].wire.msg, r)
      BY DEF CoveredUnchanged
    <2>1. e \in events /\ e.base = calls[g].base
      BY DEF Witnesses
    <2>2. /\ WellFormedList(e.comps)
          /\ Build(e.msg, e.comps, e.signer.params) = [ok |-> TRUE, base |-> e.base]
      BY <2>1 DEF CInv, EventsBuilt
    <2>3. /\ WellFormedList(calls[g].comps) /\ validateRequiredComponents(calls[g].comps)
          /\ Build(calls[g].wire.msg, calls[g].comps, calls[g].params)
               = [ok |-> TRUE, base |-> e.base]
      BY <2>1 DEF CInv, HInv, Established, CallsCover, Accepted
    <2>4. /\ e.comps = calls[g].comps
          /\ OneLineEach(calls[g].wire.msg, calls[g].comps) =>
               \A i \in 1..Len(e.comps) : SameValue(e.msg, calls[g].wire.msg, e.comps[i])
      BY <2>2, <2>3, BaseInjective
    <2> QED
      BY <2>3, <2>4 DEF validateRequiredComponents, componentEqual
  <1> QED
    BY <1>1, CoverageInvariant, PTL

-----------------------------------------------------------------------------
(* The third invariant.  What VerifyRequest returns with an accepted       *)
(* request was signed: the parameters are those of the signer, the         *)
(* algorithm is the one every source names that names one, and the age     *)
(* limit holds for the Signer.                                             *)

LEMMA PInitHolds == Init => PInv
  <1> SUFFICES ASSUME Init PROVE PInv
    OBVIOUS
  <1>1. /\ clock = 0 /\ signers = {} /\ events = {} /\ options = NoVerifier
        /\ calls = [g \in Calls |-> NewCall]
    BY DEF Init
  <1>2. SignersKnown
    BY <1>1 DEF SignersKnown
  <1>3. CallsChecked
    BY <1>1 DEF CallsChecked, NewCall
  <1> QED
    BY <1>2, <1>3, CInitHolds DEF PInv

\* A step that leaves the verifications and their options alone.
LEMMA PBystander ==
    ASSUME PInv, CInv', SignersKnown', UNCHANGED <<options, calls>>
    PROVE  PInv'
  <1>1. CallsChecked'
    BY DEF PInv, CallsChecked, ParamsChecked, AlgChosen, NoMismatch, initialAlgorithm
  <1> QED
    BY <1>1 DEF PInv

LEMMA PNewSigner == ASSUME PInv, NewSigner PROVE PInv'
  <1>1. PICK o \in SignerOptions :
          signers' = signers \cup
            {[label |-> DefaultLabel(o.label), slice |-> o.slice,
              params |-> SignerParams(o), alg |-> o.alg, of |-> o.of,
              sigInput |-> serializeSignatureInput(slices[o.slice], SignerParams(o)).member,
              stamped |-> CreatedInstant(o)]}
    BY DEF NewSigner
  <1>2. UNCHANGED <<clock, events, options, calls>>
    BY DEF NewSigner
  <1>3. /\ ParamsShape(SignerParams(o))
        /\ SignerParams(o).created \in {Absent, Int64(Unix(CreatedInstant(o)))}
    <2> HIDE DEF CreatedInstant
    <2> QED
      BY DEF ParamsShape, SignerParams, NoParams, IntKeys, StrKeys, IfSet
  <1>4. CreatedInstant(o) \in Int
    BY HttpSigAssumption DEF CreatedInstant, PInv, SignersKnown
  <1>5. SignersKnown'
    BY <1>1, <1>2, <1>3, <1>4 DEF PInv, SignersKnown, SignerKnown
  <1> QED
    BY <1>2, <1>5, CNewSigner, PBystander DEF PInv

LEMMA PSign == ASSUME PInv, SignRequest PROVE PInv'
  <1>1. PICK s \in signers, m \in Messages : events' = events \cup {Event(s, m)}
    BY DEF SignRequest
  <1>2. UNCHANGED <<clock, signers, options, calls>>
    BY DEF SignRequest
  <1>3. Event(s, m).signer = s
    BY DEF Event
  <1>4. SignersKnown'
    BY <1>1, <1>2, <1>3 DEF PInv, SignersKnown, SignerKnown
  <1> QED
    BY <1>2, <1>4, CSign, PBystander DEF PInv

LEMMA PNewVerifier == ASSUME PInv, NewVerifier PROVE PInv'
  <1>1. options = NoVerifier /\ options' \in VerifyOptions
        /\ UNCHANGED <<clock, signers, events, calls>>
    BY DEF NewVerifier
  <1>2. SignersKnown'
    BY <1>1 DEF PInv, SignersKnown, SignerKnown
  <1>3. \A g \in Calls : calls[g].pc \notin {"resolving", "resolved", "accepted"}
    BY <1>1 DEF PInv, CInv, CallsCover
  <1>4. CallsChecked'
    BY <1>1, <1>3 DEF CallsChecked
  <1> QED
    BY <1>2, <1>4, CNewVerifier DEF PInv

\* A step of verification g that keeps what the checks have found.
LEMMA POneCall ==
    ASSUME PInv, CInv', UNCHANGED <<clock, signers, events, options>>,
           NEW g \in Calls, NEW c, calls' = [calls EXCEPT ![g] = c],
           c.pc \in {"resolving", "resolved", "accepted"} => ParamsChecked(c),
           c.pc \in {"resolved", "accepted"} => AlgChosen(c)
    PROVE  PInv'
  <1>1. \A h \in Calls : calls'[h] = IF h = g THEN c ELSE calls[h]
    BY DEF PInv, CInv, HInv, Shapes
  <1>2. CallsChecked'
    BY <1>1 DEF PInv, CallsChecked, ParamsChecked, AlgChosen, NoMismatch, initialAlgorithm
  <1>3. SignersKnown'
    BY DEF PInv, SignersKnown, SignerKnown
  <1> QED
    BY <1>2, <1>3 DEF PInv

LEMMA PStart == ASSUME PInv, NEW g \in Calls, VerifyStart(g) PROVE PInv'
  <1> DEFINE parsed == ParseSignatureInput(wire.input)
             label  == SelectLabel(parsed.signatures)
             entry  == parsed.signatures[label]
             call   == [calls[g] EXCEPT !.wire = wire, !.started = clock]
             failed == [call EXCEPT !.pc = "refused"]
             going  == [call EXCEPT !.pc = "resolving", !.label = label,
                                    !.comps = entry.comps, !.params = entry.params,
                                    !.sig = wire.sig[label]]
  <1>1. CallShape(calls[g])
    BY DEF PInv, CInv, HInv, Shapes
  <1>2. CallShape(call) /\ call.started = clock
    BY <1>1 DEF CallShape, CallFields
  <1>3. /\ failed.pc = "refused" /\ going.pc = "resolving"
        /\ going.params = entry.params /\ going.started = clock
    BY <1>2 DEF CallShape, CallFields
  <1>4. parsed.ok /\ label \in DOMAIN parsed.signatures => ParamsShape(entry.params)
    BY ParsedParams
  <1> HIDE DEF parsed, label, entry, call, failed, going
  <1>5. /\ UNCHANGED <<clock, signers, events, options>>
        /\ \/ calls' = [calls EXCEPT ![g] = failed]
           \/ /\ parsed.ok /\ label \in DOMAIN parsed.signatures
              /\ ValidateSignatureParams(StampsOf(entry.params), options.params, clock) = "ok"
              /\ NoMismatch(entry.params)
              /\ calls' = [calls EXCEPT ![g] = going]
    BY DEF VerifyStart, parsed, label, entry, call, failed, going
  <1>6. CInv' /\ clock \in Nat
    BY CVerifyStart DEF PInv, SignersKnown
  <1>7. CASE calls' = [calls EXCEPT ![g] = failed]
    BY <1>3, <1>5, <1>6, <1>7, POneCall
  <1>8. CASE /\ parsed.ok /\ label \in DOMAIN parsed.signatures
             /\ ValidateSignatureParams(StampsOf(entry.params), options.params, clock) = "ok"
             /\ NoMismatch(entry.params)
             /\ calls' = [calls EXCEPT ![g] = going]
    <2>1. ParamsChecked(going)
      BY <1>3, <1>4, <1>6, <1>8 DEF ParamsChecked
    <2> QED
      BY <1>3, <1>5, <1>6, <1>8, <2>1, POneCall
  <1> QED
    BY <1>5, <1>7, <1>8

LEMMA PResolve == ASSUME PInv, NEW g \in Calls, ResolveKey(g) PROVE PInv'
  <1> DEFINE call   == calls[g]
             answer == Answer(call.params)
             alg    == mergeResolvedAlgorithm(initialAlgorithm(call.params), answer.alg)
             failed == [call EXCEPT !.pc = "refused", !.named = answer.alg, !.key = answer.key]
             going  == [call EXCEPT !.pc = "resolved", !.named = answer.alg,
                                    !.key = answer.key, !.alg = alg]
  <1>1. CallShape(call)
    BY DEF PInv, CInv, HInv, Shapes
  <1>2. /\ failed.pc = "refused" /\ going.pc = "resolved"
        /\ going.params = call.params /\ going.started = call.started
        /\ going.named = answer.alg /\ going.alg = alg
    BY <1>1 DEF CallShape, CallFields
  <1>3. alg = mergeResolvedAlgorithm(initialAlgorithm(call.params), answer.alg)
    OBVIOUS
  <1> HIDE DEF answer, alg, failed, going
  <1>4. /\ call.pc = "resolving"
        /\ UNCHANGED <<clock, signers, events, options>>
        /\ \/ calls' = [calls EXCEPT ![g] = failed]
           \/ /\ alg # ""
              /\ options.allowed # {} => alg \in options.allowed
              /\ calls' = [calls EXCEPT ![g] = going]
    BY DEF ResolveKey, answer, alg, failed, going
  <1>5. CInv' /\ ParamsChecked(call)
    BY <1>4, CResolve DEF PInv, CallsChecked
  <1>6. CASE calls' = [calls EXCEPT ![g] = failed]
    BY <1>2, <1>4, <1>5, <1>6, POneCall
  <1>7. CASE /\ alg # ""
             /\ options.allowed # {} => alg \in options.allowed
             /\ calls' = [calls EXCEPT ![g] = going]
    <2>1. ParamsChecked(going)
      BY <1>2, <1>5 DEF ParamsChecked
    <2>2. AlgChosen(going)
      BY <1>2, <1>3, <1>7 DEF AlgChosen
    <2> QED
      BY <1>4, <1>5, <1>7, <2>1, <2>2, POneCall
  <1> QED
    BY <1>4, <1>6, <1>7

LEMMA PFinish == ASSUME PInv, NEW g \in Calls, VerifyFinish(g) PROVE PInv'
  <1> DEFINE call   == calls[g]
             built  == Build(call.wire.msg, call.comps, call.params)
             failed == [call EXCEPT !.pc = "refused"]
             done   == [call EXCEPT !.pc = "accepted", !.base = built.base]
  <1>1. CallShape(call)
    BY DEF PInv, CInv, HInv, Shapes
  <1>2. /\ failed.pc = "refused" /\ done.params = call.params /\ done.started = call.started
        /\ done.named = call.named /\ done.alg = call.alg
    BY <1>1 DEF CallShape, CallFields
  <1> HIDE DEF built, failed, done
  <1>3. /\ call.pc = "resolved"
        /\ UNCHANGED <<clock, signers, events, options>>
        /\ calls' = [calls EXCEPT ![g] = failed] \/ calls' = [calls EXCEPT ![g] = done]
    BY DEF VerifyFinish, built, failed, done
  <1>4. CInv' /\ ParamsChecked(call) /\ AlgChosen(call)
    BY <1>3, CFinish DEF PInv, CallsChecked
  <1>5. ParamsChecked(done) /\ AlgChosen(done)
    BY <1>2, <1>4 DEF ParamsChecked, AlgChosen
  <1> QED
    BY <1>2, <1>3, <1>4, <1>5, POneCall

LEMMA PNext == PInv /\ [Next]_vars => PInv'
  <1> SUFFICES ASSUME PInv, [Next]_vars PROVE PInv'
    OBVIOUS
  <1>0. CInv'
    BY CNext DEF PInv
  <1>1. CASE UNCHANGED vars \/ EditSlice \/ Rewrite \/ Relay \/ Tick \/ RotateKeys
             \/ RegisterAlgorithm
    <2>1. /\ UNCHANGED <<signers, events, options, calls>>
          /\ clock' \in {clock, clock + 1}
      BY <1>1 DEF vars, EditSlice, Rewrite, Relay, Tick, RotateKeys, RegisterAlgorithm
    <2>2. clock' \in Nat
      BY <2>1 DEF PInv, SignersKnown
    <2>3. SignersKnown'
      BY <2>1, <2>2 DEF PInv, SignersKnown, SignerKnown
    <2> QED
      BY <1>0, <2>1, <2>3, PBystander
  <1>2. CASE NewSigner \/ SignRequest \/ NewVerifier
    BY <1>2, PNewSigner, PSign, PNewVerifier
  <1>3. CASE \E g \in Calls : VerifyStart(g) \/ ResolveKey(g) \/ VerifyFinish(g)
    BY <1>3, PStart, PResolve, PFinish
  <1> QED
    BY <1>1, <1>2, <1>3 DEF Next

THEOREM ResultInvariant == Spec => []PInv
  BY PInitHolds, PNext, PTL DEF Spec

-----------------------------------------------------------------------------
\* The signature an accepted call rests on announces the call's parameters.
LEMMA SameParams ==
    ASSUME PInv, NEW g \in Calls, Accepted(g), NEW e \in Witnesses(calls[g])
    PROVE  /\ calls[g].params = e.signer.params
           /\ calls[g].alg = e.signer.alg
           /\ e \in events
  <1>1. e \in events /\ e.base = calls[g].base /\ e.signer.alg = calls[g].alg
    BY DEF Witnesses
  <1>2. /\ ParamsShape(e.signer.params) /\ Len(e.comps) \in Nat
        /\ Build(e.msg, e.comps, e.signer.params) = [ok |-> TRUE, base |-> e.base]
    BY <1>1 DEF PInv, SignersKnown, SignerKnown, CInv, EventsBuilt, WellFormedList
  <1>3. /\ ParamsShape(calls[g].params) /\ Len(calls[g].comps) \in Nat
        /\ Build(calls[g].wire.msg, calls[g].comps, calls[g].params)
             = [ok |-> TRUE, base |-> e.base]
    BY <1>1 DEF PInv, CallsChecked, ParamsChecked, CInv, HInv, Established, CallsCover,
                WellFormedList, Accepted
  <1>4. calls[g].params = e.signer.params
    BY <1>2, <1>3, BaseParams
  <1> QED
    BY <1>1, <1>4

\* The parameters in the result of an accepted verification are those the Signer
\* announced, with whatever headers they arrived.
THEOREM ResultParametersSigned == Spec => []ParametersAreSigned
  <1>1. PInv => ParametersAreSigned
    BY SameParams DEF ParametersAreSigned
  <1> QED
    BY <1>1, ResultInvariant, PTL

\* The algorithm of the signature is the one the options, the alg parameter and
\* the key resolver name, where they name one, and one of the allowed ones.
THEOREM SourcesAgree == Spec => []AlgorithmAgreement
  <1>1. PInv => AlgorithmAgreement
    <2> SUFFICES ASSUME PInv, NEW g \in Calls, Accepted(g), NEW e \in Witnesses(calls[g])
                 PROVE  /\ {options.alg, ParamAlg(e.signer.params), calls[g].named}
                              \subseteq {"", e.signer.alg}
                        /\ options.allowed # {} => e.signer.alg \in options.allowed
      BY DEF AlgorithmAgreement
    <2>1. calls[g].params = e.signer.params /\ calls[g].alg = e.signer.alg
      BY SameParams
    <2>2. AlgChosen(calls[g]) /\ NoMismatch(calls[g].params)
      BY DEF PInv, CallsChecked, ParamsChecked, Accepted
    <2>3. {options.alg, ParamAlg(calls[g].params), calls[g].named} \subseteq {"", calls[g].alg}
      BY <2>2 DEF AlgChosen, NoMismatch, mergeResolvedAlgorithm, initialAlgorithm,
                  AlgorithmsAgree, Either, ParamAlg
    <2> QED
      BY <2>1, <2>2, <2>3 DEF AlgChosen
  <1> QED
    BY <1>1, ResultInvariant, PTL

\* Where the verifier limits the age and reads the clock, the Signer of an accepted
\* request announces created, and the instant it was stamped with (the clock at
\* NewSigner, the Now or the Created of its options) was no longer ago than that
\* when the verification started.
THEOREM AcceptedSignerIsYoung == Spec => []SignerIsYoung
  <1>1. PInv => SignerIsYoung
    <2> SUFFICES ASSUME PInv, NEW g \in Calls, Accepted(g),
                        options.params.notOlderThan > 0, options.params.now = NoInstant,
                        NEW e \in Witnesses(calls[g])
                 PROVE  /\ e.signer.params.created # Absent
                        /\ calls[g].started - e.signer.stamped <= options.params.notOlderThan
      BY DEF SignerIsYoung
    <2> DEFINE limit   == options.params.notOlderThan
               started == calls[g].started
               made    == e.signer.stamped
               stamp   == StampsOf(calls[g].params).created
    <2>1. calls[g].params = e.signer.params /\ e \in events
      BY SameParams
    <2>2. /\ made \in Int /\ e.signer.params.created \in {Absent, Int64(Unix(made))}
      BY <2>1 DEF PInv, SignersKnown, SignerKnown
    <2>3. /\ started \in Nat
          /\ ValidateSignatureParams(StampsOf(calls[g].params), options.params, started) = "ok"
      BY DEF PInv, CallsChecked, ParamsChecked, Accepted
    <2>4. limit \in Int
      <3>1. options \in VerifyOptions
        BY DEF PInv, CInv, CallsCover, Accepted, SignersKnown
      <3> QED
        BY <3>1, HttpSigAssumption DEF Options
    <2>5. stamp # NoInstant /\ ~(FromUnix(stamp) + limit < started)
      BY <2>3 DEF ValidateSignatureParams, validateCreatedParam, resolveValidationNow
    <2>6. stamp = Unix(made) /\ e.signer.params.created # Absent
      BY <2>1, <2>2, <2>5 DEF StampsOf, Stamp, Int64
    <2> HIDE DEF limit, started, made, stamp
    <2>7. FromUnix(Unix(made)) \in Int /\ FromUnix(Unix(made)) <= made
      BY <2>2, ClockAssumption DEF Unix, FromUnix
    <2>8. started - made <= limit
      BY <2>2, <2>3, <2>4, <2>5, <2>6, <2>7
    <2> QED
      BY <2>6, <2>8 DEF started, made, limit
  <1> QED
    BY <1>1, ResultInvariant, PTL

-----------------------------------------------------------------------------
(* The fourth invariant.  What a Signer wrote, and nobody changed, is      *)
(* accepted: the parser gives back what was serialized, so each check of   *)
(* the verifier is a check of the Signer's own options.                    *)

LEMMA QInitHolds == Init => QInv
  <1> SUFFICES ASSUME Init PROVE QInv
    OBVIOUS
  <1>1. signers = {} /\ events = {} /\ calls = [g \in Calls |-> NewCall]
    BY DEF Init
  <1>2. SignersComplete /\ CallsExplained
    BY <1>1 DEF SignersComplete, CallsExplained, NewCall
  <1> QED
    BY <1>2, PInitHolds DEF QInv

\* What a call selected and why it was refused depends on nothing but the call and
\* the options.
LEMMA OptionsOnly ==
    ASSUME UNCHANGED options, NEW d
    PROVE  (Selected(d) => Selected(d)') /\ (Refusal(d) => Refusal(d)')
  BY DEF Selected, Refusal, StartPasses, ResolvePasses, FinishPasses,
         EntryOf, LabelOf, SelectLabel, validateRequiredComponents, NoMismatch,
         initialAlgorithm

LEMMA ExplainedStays ==
    ASSUME CallsExplained, UNCHANGED <<options, calls>>
    PROVE  CallsExplained'
  BY OptionsOnly DEF CallsExplained

LEMMA CompleteStays ==
    ASSUME registry \subseteq registry', NEW s, SignerComplete(s)
    PROVE  SignerComplete(s)'
  BY DEF SignerComplete

LEMMA QBystander ==
    ASSUME QInv, PInv', registry \subseteq registry', UNCHANGED <<signers, events, options, calls>>
    PROVE  QInv'
  <1>1. SignersComplete'
    BY CompleteStays DEF QInv, SignersComplete
  <1> QED
    BY <1>1, ExplainedStays DEF QInv

LEMMA QNewSigner == ASSUME QInv, NewSigner PROVE QInv'
  <1>1. PICK o \in SignerOptions :
          /\ o.alg # "" /\ o.of # NoKey /\ o.alg \in registry
          /\ signers' = signers \cup
               {[label |-> DefaultLabel(o.label), slice |-> o.slice,
                 params |-> SignerParams(o), alg |-> o.alg, of |-> o.of,
                 sigInput |-> serializeSignatureInput(slices[o.slice], SignerParams(o)).member,
                 stamped |-> CreatedInstant(o)]}
    BY DEF NewSigner
  <1>2. UNCHANGED <<registry, events, options, calls>>
    BY DEF NewSigner
  <1> DEFINE p == SignerParams(o)
             m == serializeSignatureInput(slices[o.slice], p).member
             r == [label |-> DefaultLabel(o.label), slice |-> o.slice, params |-> p,
                   alg |-> o.alg, of |-> o.of, sigInput |-> m, stamped |-> CreatedInstant(o)]
  <1>3. /\ p.created \in {Absent, Int64(Unix(CreatedInstant(o)))}
        /\ p.expires \in {Absent, Int64(Unix(o.expires))}
        /\ p.alg \in {Absent, Str(o.alg)} /\ p.keyid \in {Absent, Str(o.keyid)}
        /\ p.nonce \in {Absent, Str(o.nonce)} /\ p.tag \in {Absent, Str(o.tag)}
        /\ ParamsShape(p)
    BY DEF ParamsShape, SignerParams, NoParams, IntKeys, StrKeys, IfSet
  <1>4. TypedParams(p)
    <2> HIDE DEF p
    <2>1. \A k, v : WellTyped([key |-> k, value |-> Int64(v)]) \/ k \in StrKeys
      BY DEF WellTyped, Int64
    <2>2. \A k, v : WellTyped([key |-> k, value |-> Str(v)]) \/ k \in IntKeys
      BY DEF WellTyped, Str
    <2>3. \A k \in IntKeys : p[k] = Absent \/ \E v : p[k] = Int64(v)
      BY <1>3 DEF IntKeys
    <2>4. \A k \in StrKeys : p[k] = Absent \/ \E v : p[k] = Str(v)
      BY <1>3 DEF StrKeys
    <2>5. IntKeys \cap StrKeys = {}
      BY DEF IntKeys, StrKeys
    <2> QED
      BY <1>3, <2>1, <2>2, <2>3, <2>4, <2>5 DEF TypedParams
  <1>5. DefaultLabel(o.label) # ""
    BY DEF DefaultLabel
  <1> HIDE DEF m, p
  <1>6. /\ r.params = p /\ r.alg = o.alg /\ r.of = o.of
        /\ r.label = DefaultLabel(o.label)
    OBVIOUS
  <1> HIDE DEF r
  <1>7. signers' = signers \cup {r}
    BY <1>1 DEF r, m, p
  <1>8. SignersComplete'
    <2>1. ASSUME NEW s \in signers' PROVE SignerComplete(s)'
      <3>1. CASE s \in signers
        BY <1>2, <3>1, CompleteStays DEF QInv, SignersComplete
      <3>2. CASE s \notin signers
        <4>1. s = r
          BY <1>7, <3>2
        <4> QED
          BY <1>1, <1>2, <1>3, <1>4, <1>5, <1>6, <4>1 DEF SignerComplete
      <3> QED
        BY <3>1, <3>2
    <2>2. \A e \in events : SignerComplete(e.signer)'
      BY <1>2, CompleteStays DEF QInv, SignersComplete
    <2> QED
      BY <1>2, <2>1, <2>2 DEF SignersComplete
  <1>9. PInv'
    BY PNewSigner DEF QInv
  <1> QED
    BY <1>2, <1>8, <1>9, ExplainedStays DEF QInv

LEMMA QSign == ASSUME QInv, SignRequest PROVE QInv'
  <1>1. PICK s \in signers, m \in Messages : events' = events \cup {Event(s, m)}
    BY DEF SignRequest
  <1>2. UNCHANGED <<registry, signers, options, calls>>
    BY DEF SignRequest
  <1>3. Event(s, m).signer = s
    BY DEF Event
  <1>4. SignersComplete'
    BY <1>1, <1>2, <1>3, CompleteStays DEF QInv, SignersComplete
  <1>5. PInv'
    BY PSign DEF QInv
  <1> QED
    BY <1>2, <1>4, <1>5, ExplainedStays DEF QInv

LEMMA QNewVerifier == ASSUME QInv, NewVerifier PROVE QInv'
  <1>1. options = NoVerifier /\ UNCHANGED <<registry, signers, events, calls>>
    BY DEF NewVerifier
  <1>2. \A g \in Calls : calls[g].pc = "idle"
    BY <1>1 DEF QInv, CallsExplained
  <1>3. CallsExplained'
    BY <1>1, <1>2 DEF CallsExplained
  <1>4. SignersComplete'
    BY <1>1, CompleteStays DEF QInv, SignersComplete
  <1>5. PInv'
    BY PNewVerifier DEF QInv
  <1> QED
    BY <1>3, <1>4, <1>5 DEF QInv

\* A step of verification g to c.
LEMMA QOneCall ==
    ASSUME QInv, PInv', UNCHANGED <<registry, signers, events, options>>,
           options # NoVerifier,
           NEW g \in Calls, NEW c, calls' = [calls EXCEPT ![g] = c],
           c.pc \in {"resolving", "resolved"} => Selected(c),
           c.pc = "refused" => Refusal(c)
    PROVE  QInv'
  <1>1. \A h \in Calls : calls'[h] = IF h = g THEN c ELSE calls[h]
    BY DEF QInv, PInv, CInv, HInv, Shapes
  <1>2. SignersComplete'
    BY CompleteStays DEF QInv, SignersComplete
  <1>3. CallsExplained'
    <2>1. ASSUME NEW h \in Calls
          PROVE  /\ calls'[h].pc \in {"resolving", "resolved"} => Selected(calls'[h])
                 /\ calls'[h].pc = "refused" => Refusal(calls'[h])
      BY <1>1 DEF QInv, CallsExplained
    <2> QED
      BY <2>1, OptionsOnly DEF CallsExplained
  <1> QED
    BY <1>2, <1>3 DEF QInv

LEMMA QStart == ASSUME QInv, NEW g \in Calls, VerifyStart(g) PROVE QInv'
  <1> DEFINE parsed == ParseSignatureInput(wire.input)
             label  == SelectLabel(parsed.signatures)
             entry  == parsed.signatures[label]
             call   == [calls[g] EXCEPT !.wire = wire, !.started = clock]
             failed == [call EXCEPT !.pc = "refused"]
             going  == [call EXCEPT !.pc = "resolving", !.label = label,
                                    !.comps = entry.comps, !.params = entry.params,
                                    !.sig = wire.sig[label]]
  <1>1. CallShape(calls[g])
    BY DEF QInv, PInv, CInv, HInv, Shapes
  <1>2. CallShape(call) /\ call.wire = wire /\ call.started = clock
    BY <1>1 DEF CallShape, CallFields
  <1>3. /\ failed.pc = "refused" /\ failed.wire = wire /\ failed.started = clock
        /\ going.pc = "resolving" /\ going.wire = wire /\ going.label = label
        /\ going.comps = entry.comps /\ going.params = entry.params
        /\ going.sig = wire.sig[label]
    BY <1>2 DEF CallShape, CallFields
  <1>4. label = LabelOf(wire) /\ entry = EntryOf(wire) /\ parsed = ParseSignatureInput(wire.input)
    BY DEF LabelOf, EntryOf
  <1> HIDE DEF parsed, label, entry, call, failed, going
  <1>5. /\ UNCHANGED <<registry, signers, events, options>> /\ options # NoVerifier
        /\ \/ /\ calls' = [calls EXCEPT ![g] = failed]
              /\ ~(/\ wire.input # NoHeader /\ wire.sig # NoHeader
                   /\ parsed.ok
                   /\ label \in DOMAIN parsed.signatures
                   /\ label \in DOMAIN wire.sig
                   /\ validateRequiredComponents(entry.comps)
                   /\ ValidateSignatureParams(StampsOf(entry.params), options.params, clock) = "ok"
                   /\ NoMismatch(entry.params))
           \/ calls' = [calls EXCEPT ![g] = going]
    BY DEF VerifyStart, parsed, label, entry, call, failed, going
  <1>6. PInv'
    BY PStart DEF QInv
  <1>7. CASE calls' = [calls EXCEPT ![g] = failed] /\ ~StartPasses(wire, clock)
    <2>1. Refusal(failed)
      BY <1>3, <1>7 DEF Refusal
    <2> QED
      BY <1>3, <1>5, <1>6, <1>7, <2>1, QOneCall
  <1>8. CASE calls' = [calls EXCEPT ![g] = going]
    <2>1. Selected(going)
      BY <1>3, <1>4 DEF Selected
    <2> QED
      BY <1>3, <1>5, <1>6, <1>8, <2>1, QOneCall
  <1> QED
    BY <1>4, <1>5, <1>7, <1>8 DEF StartPasses

LEMMA QResolve == ASSUME QInv, NEW g \in Calls, ResolveKey(g) PROVE QInv'
  <1> DEFINE call   == calls[g]
             answer == Answer(call.params)
             alg    == mergeResolvedAlgorithm(initialAlgorithm(call.params), answer.alg)
             failed == [call EXCEPT !.pc = "refused", !.named = answer.alg, !.key = answer.key]
             going  == [call EXCEPT !.pc = "resolved", !.named = answer.alg,
                                    !.key = answer.key, !.alg = alg]
  <1>1. CallShape(call)
    BY DEF QInv, PInv, CInv, HInv, Shapes
  <1>2. /\ failed.pc = "refused" /\ failed.wire = call.wire /\ failed.label = call.label
        /\ failed.sig = call.sig /\ failed.comps = call.comps /\ failed.params = call.params
        /\ failed.named = answer.alg /\ failed.key = answer.key
        /\ going.pc = "resolved" /\ going.wire = call.wire /\ going.label = call.label
        /\ going.sig = call.sig /\ going.comps = call.comps /\ going.params = call.params
    BY <1>1 DEF CallShape, CallFields
  <1>3. alg = mergeResolvedAlgorithm(initialAlgorithm(call.params), answer.alg)
    OBVIOUS
  <1> HIDE DEF answer, alg, failed, going
  <1>4. /\ call.pc = "resolving"
        /\ UNCHANGED <<registry, signers, events, options>>
        /\ \/ /\ calls' = [calls EXCEPT ![g] = failed]
              /\ ~(/\ answer.key # NoKey /\ alg # ""
                   /\ options.allowed # {} => alg \in options.allowed)
           \/ calls' = [calls EXCEPT ![g] = going]
    BY DEF ResolveKey, answer, alg, failed, going
  <1>5. PInv' /\ Selected(call) /\ options # NoVerifier
    BY <1>4, PResolve DEF QInv, CallsExplained
  <1>6. Selected(failed) /\ Selected(going)
    BY <1>2, <1>5 DEF Selected
  <1>7. CASE /\ calls' = [calls EXCEPT ![g] = failed]
             /\ ~(/\ answer.key # NoKey /\ alg # ""
                  /\ options.allowed # {} => alg \in options.allowed)
    <2>1. ~ResolvePasses(failed)
      BY <1>2, <1>3, <1>7 DEF ResolvePasses
    <2>2. Refusal(failed)
      BY <1>6, <2>1 DEF Refusal
    <2> QED
      BY <1>2, <1>4, <1>5, <1>7, <2>2, QOneCall
  <1>8. CASE calls' = [calls EXCEPT ![g] = going]
    BY <1>2, <1>4, <1>5, <1>6, <1>8, QOneCall
  <1> QED
    BY <1>4, <1>7, <1>8

\* The algorithm of a signature that would be valid is registered: whoever made
\* the signature found it there.
LEMMA ValidIsRegistered ==
    ASSUME QInv, NEW g \in Calls, calls[g].pc = "resolved", FinishPasses(calls[g])
    PROVE  calls[g].alg \in registry
  <1> DEFINE c == calls[g]
  <1>1. SigKnown(c.sig) /\ c.key # NoKey
    BY DEF QInv, PInv, CInv, HInv, SigsKnown, Established
  <1>2. c.sig.alg = c.alg /\ c.sig.of = c.key
    BY DEF FinishPasses, SignatureValid
  <1>3. c.sig # Damaged
    BY <1>1, <1>2 DEF Damaged
  <1>4. PICK e \in events : c.sig = SigOf(e)
    BY <1>1, <1>3 DEF SigKnown
  <1>5. e.signer.alg = c.alg
    BY <1>2, <1>4 DEF SigOf
  <1> QED
    BY <1>5 DEF QInv, SignersComplete, SignerComplete

LEMMA QFinish == ASSUME QInv, NEW g \in Calls, VerifyFinish(g) PROVE QInv'
  <1> DEFINE call   == calls[g]
             built  == Build(call.wire.msg, call.comps, call.params)
             failed == [call EXCEPT !.pc = "refused"]
             done   == [call EXCEPT !.pc = "accepted", !.base = built.base]
  <1>1. CallShape(call)
    BY DEF QInv, PInv, CInv, HInv, Shapes
  <1>2. /\ failed.pc = "refused" /\ failed.wire = call.wire /\ failed.label = call.label
        /\ failed.sig = call.sig /\ failed.comps = call.comps /\ failed.params = call.params
        /\ failed.named = call.named /\ failed.key = call.key /\ failed.alg = call.alg
        /\ done.pc = "accepted"
    BY <1>1 DEF CallShape, CallFields
  <1> HIDE DEF failed, done
  <1>3. /\ call.pc = "resolved"
        /\ UNCHANGED <<registry, signers, events, options>>
        /\ \/ /\ calls' = [calls EXCEPT ![g] = failed]
              /\ ~(/\ call.alg \in registry /\ built.ok
                   /\ SignatureValid(call.sig, call.alg, call.key, built.base))
           \/ calls' = [calls EXCEPT ![g] = done]
    BY DEF VerifyFinish, failed, done
  <1>4. /\ PInv' /\ Selected(call) /\ options # NoVerifier
        /\ call.alg = mergeResolvedAlgorithm(initialAlgorithm(call.params), call.named)
    BY <1>3, PFinish DEF QInv, CallsExplained, PInv, CallsChecked, AlgChosen
  <1>5. CASE /\ calls' = [calls EXCEPT ![g] = failed]
             /\ ~(/\ call.alg \in registry /\ built.ok
                  /\ SignatureValid(call.sig, call.alg, call.key, built.base))
    <2>1. ~FinishPasses(call)
      BY <1>3, <1>5, ValidIsRegistered DEF FinishPasses
    <2>2. Refusal(failed)
      BY <1>2, <1>4, <2>1 DEF Refusal, Selected, FinishPasses
    <2> QED
      BY <1>2, <1>3, <1>4, <1>5, <2>2, QOneCall
  <1>6. CASE calls' = [calls EXCEPT ![g] = done]
    BY <1>2, <1>3, <1>4, <1>6, QOneCall
  <1> QED
    BY <1>3, <1>5, <1>6

LEMMA QNext == QInv /\ [Next]_vars => QInv'
  <1> SUFFICES ASSUME QInv, [Next]_vars PROVE QInv'
    OBVIOUS
  <1>0. PInv'
    BY PNext DEF QInv
  <1>1. CASE UNCHANGED vars \/ EditSlice \/ Rewrite \/ Relay \/ Tick \/ RotateKeys
             \/ RegisterAlgorithm
    <2>1. UNCHANGED <<signers, events, options, calls>> /\ registry \subseteq registry'
      BY <1>1 DEF vars, EditSlice, Rewrite, Relay, Tick, RotateKeys, RegisterAlgorithm
    <2> QED
      BY <1>0, <2>1, QBystander
  <1>2. CASE NewSigner \/ SignRequest \/ NewVerifier
    BY <1>2, QNewSigner, QSign, QNewVerifier
  <1>3. CASE \E g \in Calls : VerifyStart(g) \/ ResolveKey(g) \/ VerifyFinish(g)
    BY <1>3, QStart, QResolve, QFinish
  <1> QED
    BY <1>1, <1>2, <1>3 DEF Next

THEOREM RefusalsExplained == Spec => []QInv
  BY QInitHolds, QNext, PTL DEF Spec

-----------------------------------------------------------------------------
\* The header of a Signer, read: what it was made of.
LEMMA HeaderRead ==
    ASSUME QInv, NEW e \in events,
           e.signer.sigInput = serializeSignatureInput(e.comps, e.signer.params).member,
           ParseSignatureInput(InputOf(e)).ok
    PROVE  ParseSignatureInput(InputOf(e)).signatures =
             [l \in {e.signer.label} |->
                [ok |-> TRUE, comps |-> e.comps, params |-> e.signer.params]]
  <1> DEFINE cs   == e.comps
             p    == e.signer.params
             m    == serializeSignatureInput(cs, p).member
             dict == InputOf(e)
             items == [i \in 1..Len(cs) |-> [name |-> cs[i].name, params |-> cs[i].params]]
             back  == [i \in 1..Len(m.items) |-> ParsedComponent(m.items[i])]
  <1>1. /\ WellFormedList(cs) /\ TypedParams(p)
    BY DEF QInv, PInv, CInv, EventsBuilt, SignersComplete, SignerComplete
  <1>2. dict = [l \in {e.signer.label} |-> m]
    BY DEF InputOf, Dictionary
  <1>3. serializeSignatureInput(cs, p).ok
    <2>1. ASSUME NEW i \in 1..Len(cs), NEW j \in 1..Len(cs[i].params)
          PROVE  cs[i].params[j].value # NilItem
      <3>1. WellFormed(cs[i])
        BY <1>1 DEF WellFormedList
      <3>2. j \in DOMAIN cs[i].params
        BY <3>1 DEF WellFormed
      <3> QED
        BY <3>1, <3>2 DEF WellFormed
    <2> QED
      BY <2>1 DEF serializeSignatureInput
  <1>4. m.items = items
    BY <1>3 DEF serializeSignatureInput
  <1>5. /\ Len(cs) \in Nat /\ cs = [i \in 1..Len(cs) |-> cs[i]]
        /\ \A i \in 1..Len(cs) : ParsedComponent(cs[i]) = cs[i]
    BY <1>1 DEF WellFormedList, WellFormed
  <1>6. back = cs
    <2>1. Len(items) = Len(cs)
      BY <1>5, LenOf
    <2>2. back = [i \in 1..Len(cs) |-> ParsedComponent(cs[i])]
      BY <1>4, <2>1 DEF ParsedComponent
    <2> QED
      BY <1>5, <2>2
  <1> HIDE DEF m
  <1>7. /\ parseSignatureEntryFromInput(m).ok
        /\ ParseSignatureInput(dict).signatures =
             [l \in {e.signer.label} |-> parseSignatureEntryFromInput(m)]
    BY <1>2 DEF ParseSignatureInput
  <1>8. \A i \in 1..Len(back) : validateComponentIdentifier(back[i])
    BY <1>7 DEF parseSignatureEntryFromInput
  <1>9. parseSignatureEntryFromInput(m) = [ok |-> TRUE, comps |-> cs, params |-> p]
    <2> HIDE DEF back, cs, p
    <2>1. \A i \in 1..Len(cs) : validateComponentIdentifier(cs[i])
      BY <1>6, <1>8
    <2> QED
      BY <1>1, <1>3, <1>5, <2>1, EntryReadBack DEF m
  <1> QED
    BY <1>7, <1>9

\* Such a request passes the first checks, and what is selected is what was signed.
LEMMA AcceptableStarts ==
    ASSUME QInv, NEW c, NEW e \in events, Acceptable(c, e)
    PROVE  /\ StartPasses(c.wire, c.started)
           /\ LabelOf(c.wire) = e.signer.label
           /\ EntryOf(c.wire).comps = e.comps
           /\ EntryOf(c.wire).params = e.signer.params
           /\ c.wire.sig = [l \in {e.signer.label} |-> SigOf(e)]
           /\ c.wire.msg = e.msg
  <1> DEFINE w == c.wire
             n == e.signer.label
             p == e.signer.params
             r == [ok |-> TRUE, comps |-> e.comps, params |-> p]
             signatures == ParseSignatureInput(w.input).signatures
  <1>1. /\ w.msg = e.msg /\ w.input = InputOf(e) /\ w.sig = [l \in {n} |-> SigOf(e)]
        /\ ParseSignatureInput(w.input).ok
    <2>1. w = [msg |-> e.msg, input |-> InputOf(e), sig |-> Dictionary(n, SigOf(e))]
      BY DEF Acceptable
    <2>2. /\ w.msg = e.msg /\ w.input = InputOf(e) /\ w.sig = Dictionary(n, SigOf(e))
      BY <2>1
    <2>3. ParseSignatureInput(InputOf(e)).ok
      BY DEF Acceptable
    <2> QED
      BY <2>2, <2>3 DEF Dictionary
  <1>2. signatures = [l \in {n} |-> r]
    BY <1>1, HeaderRead DEF Acceptable
  <1>3. SelectLabel(signatures) = n
    <2>1. DOMAIN signatures = {n}
      BY <1>2
    <2>2. Cardinality({n}) = 1
      BY FS_Singleton
    <2>3. options.label \in {"", n}
      BY DEF Acceptable
    <2>4. \A S : S = {n} => (CHOOSE l \in S : TRUE) = n
      OBVIOUS
    <2> HIDE DEF signatures
    <2> QED
      BY <2>1, <2>2, <2>3, <2>4 DEF SelectLabel
  <1>4. LabelOf(w) = n
    BY <1>3 DEF LabelOf
  <1>5. EntryOf(w) = r
    BY <1>2, <1>4 DEF EntryOf
  <1>6. EntryOf(w).comps = e.comps /\ EntryOf(w).params = p
    BY <1>5
  <1>7. w.input # NoHeader /\ w.sig # NoHeader
    <2>1. DOMAIN NoHeader = {} /\ DOMAIN w.input = {n} /\ DOMAIN w.sig = {n}
      BY <1>1 DEF NoHeader, InputOf, Dictionary
    <2> QED
      BY <2>1
  <1>8. NoMismatch(p)
    <2>1. /\ {options.alg, ParamAlg(p)} \subseteq {"", e.signer.alg}
          /\ p.alg \in {Absent, Str(e.signer.alg)} /\ e.signer.alg # ""
      BY DEF Acceptable, QInv, SignersComplete, SignerComplete
    <2>2. options.alg # "" => options.alg = e.signer.alg
      BY <2>1
    <2>3. Str(e.signer.alg).str = e.signer.alg
      BY DEF Str
    <2>4. p.alg # Absent => p.alg.str = e.signer.alg
      BY <2>1, <2>3
    <2> QED
      BY <2>2, <2>4 DEF NoMismatch
  <1>9. /\ validateRequiredComponents(e.comps)
        /\ ValidateSignatureParams(StampsOf(p), options.params, c.started) = "ok"
    BY DEF Acceptable, validateRequiredComponents, componentEqual
  <1>10. n \in DOMAIN signatures /\ n \in DOMAIN w.sig
    BY <1>1, <1>2
  <1> HIDE DEF w, n, p, r, signatures
  <1>11. StartPasses(w, c.started)
    BY <1>1, <1>4, <1>6, <1>7, <1>8, <1>9, <1>10 DEF StartPasses, signatures
  <1> QED
    BY <1>1, <1>4, <1>6, <1>11 DEF w, n, p

\* A request that arrives as it was signed, at a verifier whose options it meets
\* and whose resolver answers with the Signer's key, is not refused, whatever
\* happens at the same time.
THEOREM UnchangedIsAccepted == Spec => []Complete
  <1>1. QInv => Complete
    <2> SUFFICES ASSUME QInv, NEW g \in Calls, calls[g].pc = "refused",
                        NEW e \in events, Acceptable(calls[g], e)
                 PROVE  calls[g].label # "" /\ ~AnsweredFor(calls[g], e)
      BY DEF Complete
    <2> DEFINE c == calls[g]
               a == e.signer.alg
    <2>1. /\ StartPasses(c.wire, c.started)
          /\ LabelOf(c.wire) = e.signer.label
          /\ EntryOf(c.wire).comps = e.comps
          /\ EntryOf(c.wire).params = e.signer.params
          /\ c.wire.sig = [l \in {e.signer.label} |-> SigOf(e)]
          /\ c.wire.msg = e.msg
      BY AcceptableStarts
    <2>2. Refusal(c)
      BY DEF QInv, CallsExplained
    <2>3. Selected(c)
      BY <2>1, <2>2 DEF Refusal
    <2>4. /\ c.label = e.signer.label /\ c.sig = SigOf(e)
          /\ c.comps = e.comps /\ c.params = e.signer.params
      BY <2>1, <2>3 DEF Selected
    <2>5. /\ e.signer.label # "" /\ a # "" /\ e.signer.of # NoKey
          /\ c.params.alg \in {Absent, Str(a)}
      BY <2>4 DEF QInv, SignersComplete, SignerComplete
    <2>6. ASSUME AnsweredFor(c, e) PROVE FALSE
      <3>1. /\ c.key = e.signer.of /\ c.named \in {"", a}
            /\ a \in {options.alg, ParamAlg(c.params), c.named}
            /\ options.allowed # {} => a \in options.allowed
            /\ {options.alg, ParamAlg(c.params)} \subseteq {"", a}
        BY <2>4, <2>6 DEF AnsweredFor, Acceptable
      <3>2. mergeResolvedAlgorithm(initialAlgorithm(c.params), c.named) = a
        BY <2>5, <3>1 DEF mergeResolvedAlgorithm, initialAlgorithm, AlgorithmsAgree, Either
      <3>3. ResolvePasses(c)
        BY <2>5, <3>1, <3>2 DEF ResolvePasses
      <3>4. c.alg = a /\ ~FinishPasses(c)
        BY <2>1, <2>2, <3>2, <3>3 DEF Refusal
      <3>5. Build(e.msg, e.comps, e.signer.params) = [ok |-> TRUE, base |-> e.base]
        BY DEF QInv, PInv, CInv, EventsBuilt
      <3>6. SignatureValid(c.sig, c.alg, c.key, e.base)
        BY <2>4, <3>1, <3>4 DEF SignatureValid, SigOf
      <3> QED
        BY <2>1, <2>4, <3>4, <3>5, <3>6 DEF FinishPasses
    <2> QED
      BY <2>4, <2>5, <2>6
  <1> QED
    BY <1>1, RefusalsExplained, PTL
=============================================================================
