-------------------------- MODULE StructuredFields --------------------------
(***************************************************************************)
(* pkg/sfv: the parser and the serializer of structured field values, and  *)
(* the strict serialization pkg/base makes of them for the sf parameter.   *)
(*                                                                         *)
(* A text is a sequence of characters.  Parsing functions take a text s    *)
(* and an offset i (1 for the first character) and return the value with   *)
(* the offset after it, or Fail.  A bare item is a record whose one field  *)
(* tells its type: [bool], [int], [str], [tok] or [bin].  An item is       *)
(* [val, params], an inner list [items, params], params a sequence of      *)
(* [key, val], a dictionary a sequence of [key, member] without duplicate  *)
(* keys, a list a sequence of members.                                     *)
(*                                                                         *)
(* Values have one of these types: the error the serializer returns for    *)
(* other Go types cannot be stated here.                                   *)
(***************************************************************************)
EXTENDS FieldValue, Integers

CONSTANTS Limits,    \* limits.go: a record of its fields, 0 for no limit
          MaxDigits  \* the digits of an integer: 15 in the code

ASSUME FieldsAssumption ==
    /\ Limits \in [MaxInputLength : Nat, MaxStringLength : Nat, MaxByteSequenceLength : Nat,
                   MaxDictionaryMembers : Nat, MaxInnerListMembers : Nat, MaxParameters : Nat,
                   MaxTokenLength : Nat]
    /\ MaxDigits \in Nat \ {0}

Exceeds(n, limit) == limit > 0 /\ n > limit

-----------------------------------------------------------------------------
(* Character classes, primitives.go.                                       *)

Base64Alphabet ==
    <<"A","B","C","D","E","F","G","H","I","J","K","L","M","N","O","P","Q","R","S","T","U",
      "V","W","X","Y","Z","a","b","c","d","e","f","g","h","i","j","k","l","m","n","o","p",
      "q","r","s","t","u","v","w","x","y","z","0","1","2","3","4","5","6","7","8","9","+","/">>

isAlpha      == ToSet(SubSeq(Base64Alphabet, 1, 52))
isDigit      == ToSet(SubSeq(Base64Alphabet, 53, 62))
isTokenChar  == isAlpha \cup isDigit \cup {"_", "-", ".", ":", "%", "*", "/"}
isBase64Char == ToSet(Base64Alphabet) \cup {"="}

\* A control character or one beyond ASCII; every other one is printable.
Ctl == "ctl"
Unprintables == {Ctl, HT, CR, LF}
Quote     == "\""
Escape    == "\\"
Comma     == ","
Semicolon == ";"

Code == [c \in ToSet(Base64Alphabet) |->
           CHOOSE n \in 0..63 : Base64Alphabet[n + 1] = c]

-----------------------------------------------------------------------------
(* lexer.go                                                                *)

Got(v, i) == [ok |-> TRUE, val |-> v, at |-> i]
Fail      == [ok |-> FALSE]

\* What is parsed next, from the value and the offset so far.
Then(r, Next(_, _)) == IF r.ok THEN Next(r.val, r.at) ELSE Fail

\* The offsets of a text; the last one is its end.
Offsets(s) == 1..(Len(s) + 1)

\* A value that is no character stands for the 0 the code returns at the end.
peek(s, i) == IF i <= Len(s) THEN s[i] ELSE "EOF"

\* The first offset from i on that does not hold one of the characters C.
Span(s, i, C) ==
    CHOOSE k \in i..(Len(s) + 1) : /\ \A m \in i..(k - 1) : s[m] \in C
                                   /\ k <= Len(s) => s[k] \notin C

\* Mutant: a tab is no blank.
skipOnlySP(s, i) == Span(s, i, {SP})

skipOWS(s, i) == Span(s, i, Blank)
skipSP(s, i)  == Span(s, i, {SP})

checkInputLength(s) == ~Exceeds(Len(s), Limits.MaxInputLength)

\* A loop of the parser: at an offset in more it reads one more value, at any
\* other it ends.  round gives what one pass reads at an offset.
Rounds(s, i, more, round) ==
    LET rest[k \in Offsets(s)] ==
          IF k \notin more THEN Got(<<>>, k)
          ELSE Then(round[k], LAMBDA x, next :
                 Then(rest[next], LAMBDA xs, end : Got(<<x>> \o xs, end)))
    IN  rest[i]

\* Every failure is the same Fail, so a limit the code checks before each pass is
\* checked here once, on all that was read.
Within(r, limit) == Then(r, LAMBDA vs, i : IF Exceeds(Len(vs), limit) THEN Fail ELSE r)

-----------------------------------------------------------------------------
(* encoding/base64 and strconv, used by primitives.go and serialize.go.    *)

\* The characters before the padding.
Base64Data(t) == SubSeq(t, 1, Span(t, 1, ToSet(Base64Alphabet)) - 1)

\* Padded to a multiple of four, or not padded at all: the raw encoding is
\* tried second.
ValidBase64(t) ==
    LET n == Len(Base64Data(t))
    IN  /\ \A i \in (n + 1)..Len(t) : t[i] = "="
        /\ n % 4 # 1
        /\ Len(t) \in {n, 4 * ((n + 3) \div 4)}

\* The powers of four: FourTo[r + 1] = 4^r.
FourTo == <<1, 4, 16, 64, 256>>

\* Each byte has bits of two neighbouring characters; bits left over at the end
\* are dropped.
DecodeBase64(t) ==
    LET d == Base64Data(t)
    IN  [k \in 1..((Len(d) * 6) \div 8) |->
           LET r == (k - 1) % 3
               i == 4 * ((k - 1) \div 3) + r + 1
           IN  (Code[d[i]] % FourTo[4 - r]) * FourTo[r + 2] + Code[d[i + 1]] \div FourTo[3 - r]]

EncodeBase64(bytes) ==
    LET n == Len(bytes)
        Byte(k) == IF k \in 1..n THEN bytes[k] ELSE 0
        m == (8 * n + 5) \div 6
    IN  [j \in 1..(4 * ((n + 2) \div 3)) |->
           IF j > m THEN "="
           ELSE LET r == (j - 1) % 4
                    i == 3 * ((j - 1) \div 4) + r
                IN  Base64Alphabet[(Byte(i) % FourTo[r + 1]) * FourTo[4 - r]
                                     + Byte(i + 1) \div FourTo[r + 2] + 1]]

ParseInt(digits) ==
    LET value[k \in 0..Len(digits)] ==
          IF k = 0 THEN 0 ELSE 10 * value[k - 1] + Code[digits[k]] - 52
    IN  value[Len(digits)]

Numerals == UNION {[1..k -> isDigit] : k \in 1..MaxDigits}

\* The shortest numeral of a number; the parser returns none that needs more
\* than MaxDigits digits.
FormatNat(n) ==
    CHOOSE d \in Numerals : /\ ParseInt(d) = n
                            /\ \A e \in Numerals : ParseInt(e) = n => Len(d) <= Len(e)

FormatInt(n) == IF n < 0 THEN <<"-">> \o FormatNat(-n) ELSE FormatNat(n)

-----------------------------------------------------------------------------
(* primitives.go                                                           *)

parseBoolean(s, i) ==
    IF peek(s, i + 1) \in {"0", "1"} THEN Got([bool |-> peek(s, i + 1) = "1"], i + 2) ELSE Fail

parseInteger(s, i) ==
    LET start == IF s[i] = "-" THEN i + 1 ELSE i
        end   == Span(s, start, isDigit)
        n     == ParseInt(SubSeq(s, start, end - 1))
    IN  IF end = start \/ end - start > MaxDigits THEN Fail
        ELSE Got([int |-> IF s[i] = "-" THEN -n ELSE n], end)

\* One character of a string.  Only a quote and a backslash may be escaped, and
\* decodeString, which is called at the closing quote, refuses any other escape.
parseCharacter(s, i) ==
    LET c == peek(s, i)
        d == peek(s, i + 1)
    IN  IF c = "EOF" \/ c \in Unprintables \/ (c = Escape /\ d \notin {Quote, Escape}) THEN Fail
        ELSE IF c = Escape THEN Got(d, i + 2) ELSE Got(c, i + 1)

\* Up to the closing quote.  An escape takes two characters of the limit.
parseString(s, i) ==
    Then(Rounds(s, i + 1, {k \in Offsets(s) : peek(s, k) # Quote},
                [k \in Offsets(s) |-> parseCharacter(s, k)]), LAMBDA str, end :
      IF Exceeds(end - (i + 1), Limits.MaxStringLength) THEN Fail
      ELSE Got([str |-> str], end + 1))

parseToken(s, i) ==
    LET end == Span(s, i + 1, isTokenChar)
    IN  IF peek(s, i) \notin isAlpha \cup {"*"} \/ Exceeds(end - i, Limits.MaxTokenLength)
        THEN Fail ELSE Got([tok |-> SubSeq(s, i, end - 1)], end)

parseByteSequence(s, i) ==
    LET end  == Span(s, i + 1, isBase64Char)
        body == SubSeq(s, i + 1, end - 1)
    IN  IF \/ peek(s, end) # ":"
           \/ ~ValidBase64(body)
           \/ Exceeds(Len(DecodeBase64(body)), Limits.MaxByteSequenceLength)
        THEN Fail ELSE Got([bin |-> DecodeBase64(body)], end + 1)

parseBareItem(s, i) ==
    LET c == peek(s, i)
    IN  CASE c = "?"                      -> parseBoolean(s, i)
          [] c = "-" \/ c \in isDigit     -> parseInteger(s, i)
          [] c = Quote                    -> parseString(s, i)
          [] c = ":"                      -> parseByteSequence(s, i)
          [] c = "*" \/ c \in isAlpha     -> parseToken(s, i)
          [] OTHER                        -> Fail
-----------------------------------------------------------------------------
(* parameters.go, item.go, innerlist.go                                    *)

BareTrue == [bool |-> TRUE]

\* The parameter after the semicolon at i.
parseParameter(s, i) ==
    Then(parseToken(s, i + 1), LAMBDA key, j :
      Then(IF peek(s, j) = "=" THEN parseBareItem(s, j + 1) ELSE Got(BareTrue, j), LAMBDA v, k :
        Got([key |-> key.tok, val |-> v], k)))

\* Duplicates are kept.
parseParameters(s, i) ==
    Within(Rounds(s, i, {k \in Offsets(s) : peek(s, k) = Semicolon},
                  [k \in Offsets(s) |-> parseParameter(s, k)]), Limits.MaxParameters)

ParseItem(s, i) ==
    Then(parseBareItem(s, i), LAMBDA v, j :
      Then(parseParameters(s, j), LAMBDA ps, k : Got([val |-> v, params |-> ps], k)))

\* The items up to the closing parenthesis; no blank is needed between two.
innerListItems(s, i) ==
    Within(Rounds(s, i, {k \in Offsets(s) : peek(s, skipSP(s, k)) # ")"},
                  [k \in Offsets(s) |-> ParseItem(s, skipSP(s, k))]), Limits.MaxInnerListMembers)

parseInnerList(s, i) ==
    Then(innerListItems(s, i + 1), LAMBDA items, j :
      Then(parseParameters(s, skipSP(s, j) + 1), LAMBDA ps, k :
        Got([items |-> items, params |-> ps], k)))

-----------------------------------------------------------------------------
(* list.go, dictionary.go.  Both loops end, without an error, at a text    *)
(* that is no comma.                                                       *)

parseValue(s, i) == IF peek(s, i) = "(" THEN parseInnerList(s, i) ELSE ParseItem(s, i)

\* Where the member after a comma begins.
afterComma(s, i) == skipOWS(s, skipOWS(s, i) + 1)

\* Members with commas between them, none of them at the end of the text; member
\* gives what is read at an offset.
parseMembers(s, member) ==
    Then(member[1], LAMBDA first, i :
      Then(Rounds(s, i, {k \in Offsets(s) : peek(s, skipOWS(s, k)) = Comma},
                  [k \in Offsets(s) |-> IF afterComma(s, k) > Len(s) THEN Fail
                                        ELSE member[afterComma(s, k)]]), LAMBDA others, j :
        Got(<<first>> \o others, skipOWS(s, j))))

ParseList(s) ==
    IF ~checkInputLength(s) THEN Fail
    ELSE IF s = <<>> THEN Got(<<>>, 1)
    ELSE Within(parseMembers(s, [k \in Offsets(s) |-> parseValue(s, k)]),
                Limits.MaxDictionaryMembers)

\* A key alone stands for true; blanks may not follow it.
parseDictionaryMember(s, i) ==
    Then(parseToken(s, i), LAMBDA key, j :
      Then(CASE peek(s, j) \in Blank -> Fail
             [] peek(s, j) = "="     -> parseValue(s, j + 1)
             [] OTHER                -> Got([val |-> BareTrue, params |-> <<>>], j),
           LAMBDA member, k : Got([key |-> key.tok, member |-> member], k)))

\* Mutant: the first of two members with a key stays.
putFirstWins(dict, entry) ==
    IF \E i \in 1..Len(dict) : dict[i].key = entry.key THEN dict ELSE Append(dict, entry)

\* The last member with a key wins, at the place of the first.
put(dict, entry) ==
    IF \E i \in 1..Len(dict) : dict[i].key = entry.key
    THEN [i \in 1..Len(dict) |-> IF dict[i].key = entry.key THEN entry ELSE dict[i]]
    ELSE Append(dict, entry)

\* The dictionary after each number of entries.
Dictionaries(entries) ==
    LET dict[n \in 0..Len(entries)] == IF n = 0 THEN <<>> ELSE put(dict[n - 1], entries[n])
    IN  dict

\* Only different keys count for the limit, which is checked before an entry.
ParseDictionary(s) ==
    IF ~checkInputLength(s) THEN Fail
    ELSE IF s = <<>> THEN Got(<<>>, 1)
    ELSE Then(parseMembers(s, [k \in Offsets(s) |-> parseDictionaryMember(s, k)]), LAMBDA entries, i :
           LET dict == Dictionaries(entries)
           IN  IF \E n \in 1..Len(entries) :
                    Exceeds(Len(dict[n - 1]) + 1, Limits.MaxDictionaryMembers) THEN Fail
               ELSE Got(dict[Len(entries)], i))

-----------------------------------------------------------------------------
(* serialize.go                                                            *)

Joined(texts, sep) ==
    FlattenSeq([i \in 1..Len(texts) |-> (IF i = 1 THEN <<>> ELSE sep) \o texts[i]])

\* Mutant: backslashes are not escaped.
writeStringPlain(str) ==
    <<Quote>> \o FlattenSeq([i \in 1..Len(str) |->
                   IF str[i] = Quote THEN <<Escape, str[i]>> ELSE <<str[i]>>]) \o <<Quote>>

writeString(str) ==
    <<Quote>> \o FlattenSeq([i \in 1..Len(str) |->
                   IF str[i] \in {Quote, Escape} THEN <<Escape, str[i]>> ELSE <<str[i]>>])
              \o <<Quote>>

writeBareItem(v) ==
    CASE "bool" \in DOMAIN v -> IF v.bool THEN <<"?", "1">> ELSE <<"?", "0">>
      [] "int"  \in DOMAIN v -> FormatInt(v.int)
      [] "tok"  \in DOMAIN v -> v.tok
      [] "str"  \in DOMAIN v -> writeString(v.str)
      [] "bin"  \in DOMAIN v -> <<":">> \o EncodeBase64(v.bin) \o <<":">>

\* A parameter that is true is written as a flag.
writeParameters(params) ==
    FlattenSeq([i \in 1..Len(params) |->
      <<Semicolon>> \o params[i].key
        \o (IF params[i].val = BareTrue THEN <<>> ELSE <<"=">> \o writeBareItem(params[i].val))])

writeItem(item) == writeBareItem(item.val) \o writeParameters(item.params)

writeInnerList(list) ==
    <<"(">> \o Joined([i \in 1..Len(list.items) |-> writeItem(list.items[i])], <<SP>>)
      \o <<")">> \o writeParameters(list.params)

writeMember(m) == IF "items" \in DOMAIN m THEN writeInnerList(m) ELSE writeItem(m)

\* Only true without parameters is a bare key.
SerializeDictionary(dict) ==
    Joined([i \in 1..Len(dict) |->
              dict[i].key \o (IF dict[i].member = [val |-> BareTrue, params |-> <<>>]
                              THEN <<>> ELSE <<"=">> \o writeMember(dict[i].member))], <<Comma, SP>>)

SerializeList(list) == Joined([i \in 1..Len(list) |-> writeMember(list[i])], <<Comma, SP>>)

-----------------------------------------------------------------------------
(* base/extract.go: strict serialization of a field value.                 *)

\* What was parsed, written, or what comes otherwise.
Written(r, Write(_), otherwise) == IF r.ok THEN Write(r.val) ELSE otherwise

\* Mutant: lists are forgotten.
strictWithoutLists(raw) ==
    Written(ParseDictionary(raw), SerializeDictionary,
            Written(ParseItem(raw, 1), writeItem, Invalid))

\* The type of the field is not known: the first form that parses is taken.
strictField(raw) ==
    Written(ParseDictionary(raw), SerializeDictionary,
            Written(ParseList(raw), SerializeList,
                    Written(ParseItem(raw, 1), writeItem, Invalid)))

\* With the key parameter: the one member of a dictionary, keyName a text.
strictMember(raw, keyName) ==
    LET Member(dict) ==
          LET hits == {i \in 1..Len(dict) : dict[i].key = keyName}
          IN  IF hits = {} THEN Invalid ELSE writeMember(dict[CHOOSE i \in hits : TRUE].member)
    IN  Written(ParseDictionary(raw), Member, Invalid)
=============================================================================
