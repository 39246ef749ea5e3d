-------------------------- MODULE SignatureHeaders --------------------------
(***************************************************************************)
(* The two headers of a message that several parties sign, and the two     *)
(* ways to read them: parser.ParseSignatures, which the README gives to    *)
(* applications, and the pairing inside Verifier.verifyMessage.            *)
(*                                                                         *)
(* This library's signer replaces both headers, other signers append to    *)
(* them on the same line or on a new one, and intermediaries combine the   *)
(* lines of either header, drop members and damage values.  The bytes of   *)
(* a signature are its number in the history made.                         *)
(***************************************************************************)
EXTENDS SignatureInput

CONSTANTS
    PartyLabels,  \* dictionary labels the parties use
    Members,      \* Signature-Input members signers write
    Values,       \* what damage makes of a value, readable to neither reader
    MaxSignings   \* bound: signings of one message

VARIABLES
    inputs, sigs, \* the lines of both headers, each a sequence of [label, value]
    made,         \* history: what was signed, a sequence of [label, member]
    present       \* history: the signings since the headers were last replaced

hvars == <<inputs, sigs, made, present>>

HInit == inputs = <<>> /\ sigs = <<>> /\ made = <<>> /\ present = {}

-----------------------------------------------------------------------------
(* Reading.                                                                *)

IsInnerList(v)  == "items" \in DOMAIN v
IsBytes(v)      == "bin" \in DOMAIN v
ReadableValue(v) == IF IsInnerList(v) THEN ReadableMember(v) ELSE ReadableItem(v)

\* What parties use and write, and what the readers can do with damage.
ASSUME HeadersAssumption ==
    /\ "" \notin PartyLabels
    /\ \A m \in Members : IsInnerList(m)
    /\ \A v \in Values : /\ ~IsBytes(v)
                         /\ IsInnerList(v) => ~parseSignatureEntryFromInput(v).ok
    /\ MaxMembers \in Nat

LabelsOf(line) == {line[i].label : i \in DOMAIN line}

Refused == [ok |-> FALSE]

\* The last of several members of a label.
LastValue(line, l) ==
    line[CHOOSE i \in DOMAIN line :
           line[i].label = l /\ \A j \in DOMAIN line : line[j].label = l => j <= i].value

\* Mutant: the limit is one less than it says.
parseFewerMembers(line) ==
    IF \E i \in DOMAIN line :
         \/ Cardinality(LabelsOf(SubSeq(line, 1, i - 1))) >= MaxMembers - 1
         \/ line[i].label \in BadKeys \/ ~ReadableValue(line[i].value)
    THEN Refused
    ELSE [ok |-> TRUE, values |-> [l \in LabelsOf(line) |-> LastValue(line, l)]]

\* A member is refused when the dictionary is full, also one of a label it has.
ParseDictionary(line) ==
    IF \E i \in DOMAIN line :
         \/ Cardinality(LabelsOf(SubSeq(line, 1, i - 1))) >= MaxMembers
         \/ line[i].label \in BadKeys \/ ~ReadableValue(line[i].value)
    THEN Refused
    ELSE [ok |-> TRUE, values |-> [l \in LabelsOf(line) |-> LastValue(line, l)]]

parseSignatureEntry(inputValue, sigValue) ==
    IF /\ IsInnerList(inputValue) /\ parseSignatureEntryFromInput(inputValue).ok
       /\ IsBytes(sigValue)
    THEN [ok |-> TRUE, entry |-> parseSignatureEntryFromInput(inputValue),
          bytes |-> sigValue.bin]
    ELSE Refused

\* Mutant: only the labels of Signature-Input are looked up.
parseLabelsOfInput(input, sig) ==
    LET dict  == ParseDictionary(input)
        bytes == ParseDictionary(sig)
        Entry(l) == parseSignatureEntry(dict.values[l], bytes.values[l])
    IN  IF /\ input # <<>> /\ sig # <<>> /\ dict.ok /\ bytes.ok
           /\ LabelsOf(input) \subseteq LabelsOf(sig)
           /\ \A l \in LabelsOf(input) : Entry(l).ok
        THEN [ok |-> TRUE, signatures |-> [l \in LabelsOf(input) |-> Entry(l)]]
        ELSE Refused

ParseSignatures(input, sig) ==
    LET dict  == ParseDictionary(input)
        bytes == ParseDictionary(sig)
        Entry(l) == parseSignatureEntry(dict.values[l], bytes.values[l])
    IN  IF /\ input # <<>> /\ sig # <<>> /\ dict.ok /\ bytes.ok
           /\ LabelsOf(input) = LabelsOf(sig)
           /\ \A l \in LabelsOf(input) : Entry(l).ok
        THEN [ok |-> TRUE, signatures |-> [l \in LabelsOf(input) |-> Entry(l)]]
        ELSE Refused

\* verifyMessage until it has the entry and the bytes; option is VerifyOptions.Label.
PairForVerifier(option, input, sig) ==
    LET dict   == ParseDictionary(input)
        parsed == IF dict.ok /\ \A l \in LabelsOf(input) : IsInnerList(dict.values[l])
                  THEN ParseSignatureInput(dict.values) ELSE Refused
        bytes  == ParseDictionary(sig)
        label  == IF option = "" /\ Cardinality(LabelsOf(input)) = 1
                  THEN CHOOSE l \in LabelsOf(input) : TRUE ELSE option
    IN  IF /\ input # <<>> /\ sig # <<>> /\ parsed.ok /\ bytes.ok
           /\ label \in LabelsOf(input) /\ label \in LabelsOf(sig)
           /\ IsBytes(bytes.values[label])
        THEN [ok |-> TRUE, entry |-> parsed.signatures[label],
              bytes |-> bytes.values[label].bin]
        ELSE Refused

-----------------------------------------------------------------------------
(* Writing.                                                                *)

\* The history of one more signing.
Signed(l, m) ==
    /\ Len(made) < MaxSignings
    /\ made' = Append(made, [label |-> l, member |-> m])

Member(l, v) == [label |-> l, value |-> v]
Bytes        == [bin |-> Len(made) + 1]

\* Mutant: Header.Add leaves an old signature on the first line.
signRequestAdding ==
    \E l \in PartyLabels, m \in Members :
      /\ Signed(l, m)
      /\ inputs' = << <<Member(l, m)>> >>
      /\ sigs'   = Append(sigs, <<Member(l, Bytes)>>)
      /\ present' = {Len(made')}

\* Header.Set of both headers.
SignRequest ==
    \E l \in PartyLabels, m \in Members :
      /\ Signed(l, m)
      /\ inputs' = << <<Member(l, m)>> >>
      /\ sigs'   = << <<Member(l, Bytes)>> >>
      /\ present' = {Len(made')}

\* Another signer appends its signature, to the last line or on a new one.
AppendSignature ==
    \E l \in PartyLabels, m \in Members :
      /\ Signed(l, m)
      /\ \/ /\ inputs' = Append(inputs, <<Member(l, m)>>)
            /\ sigs'   = Append(sigs, <<Member(l, Bytes)>>)
         \/ /\ inputs # <<>> /\ sigs # <<>>
            /\ inputs' = [inputs EXCEPT ![Len(inputs)] = Append(@, Member(l, m))]
            /\ sigs'   = [sigs EXCEPT ![Len(sigs)] = Append(@, Member(l, Bytes))]
      /\ present' = present \cup {Len(made')}

\* An intermediary combines the first two lines of one header.
Joined(lines) == <<lines[1] \o lines[2]>> \o SubSeq(lines, 3, Len(lines))

CombineLines ==
    /\ \/ Len(inputs) > 1 /\ inputs' = Joined(inputs) /\ UNCHANGED sigs
       \/ Len(sigs) > 1 /\ sigs' = Joined(sigs) /\ UNCHANGED inputs
    /\ UNCHANGED <<made, present>>

\* A member of the first line of one header is lost, or its value is.
Without(line, i) == SubSeq(line, 1, i - 1) \o SubSeq(line, i + 1, Len(line))
Hit(lines) ==
    {[lines EXCEPT ![1] = Without(@, i)] : i \in DOMAIN lines[1]}
      \cup {[lines EXCEPT ![1][i].value = v] : i \in DOMAIN lines[1], v \in Values}

Damage ==
    /\ \/ inputs # <<>> /\ inputs' \in Hit(inputs) /\ UNCHANGED sigs
       \/ sigs # <<>> /\ sigs' \in Hit(sigs) /\ UNCHANGED inputs
    /\ UNCHANGED <<made, present>>

HNext == SignRequest \/ AppendSignature \/ CombineLines \/ Damage

HSpec == HInit /\ [][HNext]_hvars

-----------------------------------------------------------------------------
\* http.Header.Get, and both readers of what it returns.
First(lines) == IF lines = <<>> THEN <<>> ELSE lines[1]
Input        == First(inputs)
Signature    == First(sigs)
Parsed       == ParseSignatures(Input, Signature)
Verifier(l)  == PairForVerifier(l, Input, Signature)

\* ParseSignatures and verifyMessage pair the headers in code of their own:
\* ParseSignatures accepts exactly the headers of which the verifier could take
\* every label that occurs in one of them, and returns the same entry and the
\* same bytes; the label may be left out when there is one.
BothReadersAgree ==
    LET all    == LabelsOf(Input) \cup LabelsOf(Signature)
        parsed == Parsed
    IN  /\ parsed.ok <=> all # {} /\ \A l \in all : Verifier(l).ok
        /\ parsed.ok => \A l \in all : parsed.signatures[l] = Verifier(l)
        /\ parsed.ok /\ Cardinality(all) = 1 =>
             \A l \in all : parsed.signatures[l] = Verifier("")

\* While no label is used twice, whatever is lost, combined or signed again:
\* both readers only ever pair bytes with the entry they were made for.
DistinctLabels == \A a, b \in present : made[a].label = made[b].label => a = b

MadeTogether(l, pair) ==
    /\ made[pair.bytes].label = l
    /\ parseSignatureEntryFromInput(made[pair.bytes].member) = pair.entry

PairedTogether ==
    DistinctLabels =>
      /\ \A l \in PartyLabels :
           LET pair == Verifier(l) IN pair.ok => MadeTogether(l, pair)
      /\ LET parsed == Parsed
         IN  parsed.ok => \A l \in DOMAIN parsed.signatures :
                            MadeTogether(l, parsed.signatures[l])

\* Every member of the present signings, on one line of each header.
Intact ==
    /\ Len(inputs) = 1 /\ Len(sigs) = 1
    /\ \A n \in present :
         /\ \E i \in DOMAIN Input : Input[i] = Member(made[n].label, made[n].member)
         /\ \E i \in DOMAIN Signature : Signature[i] = Member(made[n].label, [bin |-> n])

Acceptable(n) ==
    /\ made[n].label \notin BadKeys
    /\ ReadableMember(made[n].member) /\ parseSignatureEntryFromInput(made[n].member).ok

\* A message that several parties have signed, each under its own label and
\* within the limits, gives every party's signature back to ParseSignatures.
AllSignaturesRead ==
    Intact /\ DistinctLabels /\ Cardinality(present) <= MaxMembers
      /\ (\A n \in present : Acceptable(n))
    => /\ Parsed.ok
       /\ \A n \in present : Parsed.signatures[made[n].label].bytes = n
=============================================================================
