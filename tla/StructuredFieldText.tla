------------------------- MODULE StructuredFieldText -------------------------
(***************************************************************************)
(* Field lines of any text, put together piece by piece, and read as a     *)
(* dictionary, a list or an item.  Signer and verifier put the serialized  *)
(* form of what they read in the signature base (sf, key); the module asks *)
(* what that form keeps of the text.                                       *)
(***************************************************************************)
EXTENDS StructuredFields

CONSTANT Alphabets \* records [pieces, maxPieces, maxLines]: texts that lines are put
                   \* together from, and the bounds: pieces of a line, lines

\* The pieces are texts, so none holds what stands for the end of one.
ASSUME TextAssumption ==
    \A a \in Alphabets : /\ a.maxPieces \in Nat /\ a.maxLines \in Nat \ {0}
                         /\ \A p \in a.pieces : p \in Seq(ToSet(p)) /\ "EOF" \notin ToSet(p)

VARIABLES alphabet, \* the alphabet of the field
          lines,    \* the lines of the field
          pieces    \* how many pieces the last line has

xvars == <<alphabet, lines, pieces>>

XInit == alphabet \in Alphabets /\ lines = << <<>> >> /\ pieces = 0

AddPiece ==
    /\ pieces < alphabet.maxPieces
    /\ \E p \in alphabet.pieces : lines' = [lines EXCEPT ![Len(lines)] = @ \o p]
    /\ pieces' = pieces + 1
    /\ UNCHANGED alphabet

AddLine ==
    /\ Len(lines) < alphabet.maxLines
    /\ lines' = Append(lines, <<>>)
    /\ pieces' = 0
    /\ UNCHANGED alphabet

XNext == AddPiece \/ AddLine

XSpec == XInit /\ [][XNext]_xvars

-----------------------------------------------------------------------------
text == lines[Len(lines)]

\* The parse took the whole text.
Whole(result, s) == result.ok /\ result.at = Len(s) + 1

\* What the parser says of the text that is written for what it read.
Rereads(read, Write(_), Parse(_)) ==
    read.ok =>
      LET written == Write(read.val)
      IN  \/ Exceeds(Len(written), Limits.MaxInputLength)
          \/ Parse(written) = Got(read.val, Len(written) + 1)

\* sfv.Serialize* against sfv.Parse*: whatever was read, written again and read
\* again is the same value, with nothing left over and within the same limits,
\* unless the canonical text has outgrown MaxInputLength.
WrittenIsReread ==
    /\ Rereads(ParseDictionary(text), SerializeDictionary, ParseDictionary)
    /\ Rereads(ParseList(text), SerializeList, ParseList)
    /\ Rereads(ParseItem(text, 1), writeItem, LAMBDA s : ParseItem(s, 1))

IsFlag(member) == "val" \in DOMAIN member /\ "tok" \in DOMAIN member.val /\ member.params = <<>>

\* A list the dictionary parser, which is asked first, does not cut short: it
\* begins with something that is no key, or is a list of different keys.
NotCutShort(list) ==
    \/ list = <<>>
    \/ "val" \notin DOMAIN list[1] \/ "tok" \notin DOMAIN list[1].val
    \/ /\ \A i \in 1..Len(list) : IsFlag(list[i])
       /\ \A i, j \in 1..Len(list) : list[i] = list[j] => i = j

\* extract.go, serializeStructuredFieldValue: a list that is read to its end is
\* serialized as that list, although its type is not known, if NotCutShort.
StrictKeepsLists ==
    LET Kept(list) == Whole(list, text) /\ NotCutShort(list.val)
                        => strictField(text) = SerializeList(list.val)
    IN  Kept(ParseList(text))

\* base/extract.go:156: "sf: Serialize as RFC 8941 Structured Field".  The text
\* of a list in its canonical form is its own serialization.
StrictKeepsCanonical ==
    LET Kept(list) == Whole(list, text) /\ SerializeList(list.val) = text
                        => strictField(text) = text
    IN  Kept(ParseList(text))

\* The member of a dictionary with that key, if it has one.
Has(dict, key) == \E i \in 1..Len(dict) : dict[i].key = key
Get(dict, key) == dict[CHOOSE i \in 1..Len(dict) : dict[i].key = key].member

\* A dictionary has the keys of all dictionaries of a sequence, each with the
\* member of the last one that has it.
Merges(merged, dicts) ==
    LET LastWith(key, n) == Has(dicts[n], key) /\ \A m \in (n + 1)..Len(dicts) : ~Has(dicts[m], key)
    IN  /\ \A n \in 1..Len(dicts) : \A i \in 1..Len(dicts[n]) : Has(merged, dicts[n][i].key)
        /\ \A i \in 1..Len(merged) : \E n \in 1..Len(dicts) :
             LastWith(merged[i].key, n) /\ merged[i].member = Get(dicts[n], merged[i].key)

\* How many members the dictionaries of a sequence have, all together.
Members(dicts) ==
    LET sum[n \in 0..Len(dicts)] == IF n = 0 THEN 0 ELSE sum[n - 1] + Len(dicts[n])
    IN  sum[Len(dicts)]

\* Field lines that are dictionaries are combined with a comma, on the way or by
\* canonicalizeFieldValues.  What is read then is the dictionaries of all lines,
\* merged, and is refused only if the limit on members is reached.
CombinedIsMerged ==
    LET Lines == [n \in 1..Len(lines) |-> canonicalizeFieldValues(<<lines[n]>>)]
        Merged(texts, parsed, whole, read) ==
          LET dicts == [n \in 1..Len(parsed) |-> parsed[n].val]
          IN  (\A n \in 1..Len(texts) : Whole(parsed[n], texts[n])) /\ checkInputLength(whole)
              => \/ Whole(read, whole) /\ Merges(read.val, dicts)
                 \/ ~read.ok /\ Exceeds(Members(dicts) + 1, Limits.MaxDictionaryMembers)
        Combined(texts, whole) ==
          (\A n \in 1..Len(texts) : texts[n] \notin {<<>>, Invalid})
            => Merged(texts, [n \in 1..Len(texts) |-> ParseDictionary(texts[n])],
                      whole, ParseDictionary(whole))
    IN  Combined(Lines, canonicalizeFieldValues(lines))
=============================================================================
