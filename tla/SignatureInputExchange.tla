----------------------- MODULE SignatureInputExchange -----------------------
(***************************************************************************)
(* A Signature-Input header is written by this library's signer or by      *)
(* another implementation, gains a second signature on the way, and is     *)
(* read by this library's verifier.  Writer and reader live in different   *)
(* packages and check different things; the module states what they have   *)
(* to agree on.                                                            *)
(***************************************************************************)
EXTENDS SignatureInput

CONSTANTS
    Labels,          \* dictionary labels
    ComponentLists,  \* component lists a signer may be given
    ParamSets,       \* signature parameters a signer may be given
    ForeignMembers   \* dictionary members other implementations write

\* A component as the API has it: one of two types, and a list of parameters.
Typed(c) ==
    /\ c = [name |-> c.name, type |-> c.type, params |-> c.params]
    /\ c.type \in {"derived", "field"}

TypedList(cs) ==
    /\ Len(cs) \in Nat /\ cs = [i \in 1..Len(cs) |-> cs[i]]
    /\ \A i \in 1..Len(cs) : Typed(cs[i])

\* A member of the header: a list of items, each parameter with a value.
Legible(m) ==
    /\ Len(m.items) \in Nat /\ Len(m.params) \in Nat
    /\ \A i \in 1..Len(m.items) : \A j \in 1..Len(m.items[i].params) :
         m.items[i].params[j].value # NilItem

ASSUME InputAssumption ==
    /\ \A cs \in ComponentLists : TypedList(cs)
    /\ \A p \in ParamSets : TypedParams(p)
    /\ \A m \in ForeignMembers : Legible(m)

VARIABLES
    comps, params,  \* the signer's components and parameters
    origin,         \* who wrote the header: "nobody", "signer", "other"
    label,          \* the label it was written under
    wire,           \* the header line, a function from labels to members
    parsed          \* what the verifier parsed, NotParsed before

evars == <<comps, params, origin, label, wire, parsed>>

NotParsed == [ok |-> FALSE, none |-> TRUE]

EInit ==
    /\ comps \in ComponentLists
    /\ params \in ParamSets
    /\ origin = "nobody"
    /\ label \in Labels
    /\ wire = [l \in {} |-> l]
    /\ parsed = NotParsed

\* NewSigner serializes once; it fails on what cannot be written.
Write ==
    /\ origin = "nobody"
    /\ serializeSignatureInput(comps, params).ok
    /\ origin' = "signer"
    /\ wire' = [l \in {label} |-> serializeSignatureInput(comps, params).member]
    /\ UNCHANGED <<comps, params, label, parsed>>

WriteOther ==
    /\ origin = "nobody"
    /\ origin' = "other"
    /\ \E m \in ForeignMembers : wire' = [l \in {label} |-> m]
    /\ UNCHANGED <<comps, params, label, parsed>>

\* An intermediary adds its own signature under another label.
AddSignature ==
    /\ origin # "nobody" /\ parsed = NotParsed
    /\ \E l \in Labels \ DOMAIN wire, m \in ForeignMembers :
         wire' = [k \in DOMAIN wire \cup {l} |-> IF k = l THEN m ELSE wire[k]]
    /\ UNCHANGED <<comps, params, origin, label, parsed>>

Read ==
    /\ origin # "nobody" /\ parsed = NotParsed
    /\ parsed' = ParseSignatureInput(wire)
    /\ UNCHANGED <<comps, params, origin, label, wire>>

ENext == Write \/ WriteOther \/ AddSignature \/ Read

ESpec == EInit /\ [][ENext]_evars

-----------------------------------------------------------------------------
\* What a signer may be asked to cover and announce so that a verifier can read
\* it: names and values the grammar has, the type the name tells, components of
\* the registry with parameters that may be combined, and no more than the limits.
Interoperable ==
    /\ label \notin BadKeys
    /\ Len(comps) <= MaxComponents
    /\ \A i \in 1..Len(comps) :
         /\ comps[i].name \notin Unreadable
         /\ comps[i].type = "derived" <=> comps[i].name \in AtNames
         /\ ReadableParams(comps[i].params)
         /\ validateComponentIdentifier(comps[i])
    /\ ReadableParams(CanonicalParams(params))

OthersReadable == \A l \in DOMAIN wire \ {label} :
                    /\ l \notin BadKeys
                    /\ ReadableMember(wire[l])
                    /\ parseSignatureEntryFromInput(wire[l]).ok

\* NewSigner writes with serializeSignatureInput what ParseSignatureInput reads:
\* components with their order and parameters, and every signature parameter,
\* come back as they were, however many signatures share the header.  And
\* whoever wrote it, what was read is a normal form: written and read again it
\* does not change.
RoundTrip ==
    /\ origin = "signer" /\ parsed # NotParsed /\ Interoperable /\ OthersReadable
         /\ Cardinality(DOMAIN wire) <= MaxMembers
       => /\ parsed.ok
          /\ parsed.signatures[label].comps = comps
          /\ parsed.signatures[label].params = params
    /\ parsed # NotParsed /\ parsed.ok =>
         \A l \in DOMAIN parsed.signatures :
           LET entry == parsed.signatures[l]
               again == serializeSignatureInput(entry.comps, entry.params)
           IN  /\ again.ok
               /\ parseSignatureEntryFromInput(again.member) = entry

\* The signer computes the @signature-params line from its options, the verifier
\* from the header: whenever the header can be read at all the two lines are the
\* same text, also for options Interoperable excludes.
SameParamsLine ==
    origin = "signer" /\ parsed # NotParsed /\ parsed.ok
    => writeSignatureParamsLine(parsed.signatures[label].comps,
                                parsed.signatures[label].params)
         = writeSignatureParamsLine(comps, params)

=============================================================================
