------------------------- MODULE StructuredFieldPeer -------------------------
(***************************************************************************)
(* Another implementation of RFC 8941 writes a dictionary, member by       *)
(* member, with every liberty the grammar leaves: blanks around commas and *)
(* in inner lists, members that are written again, spellings of a bare     *)
(* item that are not canonical.  The module keeps what it means next to    *)
(* what it writes and asks whether pkg/sfv reads the one from the other.   *)
(***************************************************************************)
EXTENDS StructuredFields, FiniteSets

CONSTANTS Vocabularies, \* records [keys, spellings, maxSteps]: keys of members and
                        \* parameters, as texts; bare items, as records [text, val]
                        \* with a text for each; the bound on writing steps
          Separators    \* commas with their blanks

IsToken(s) == s \in Seq(isTokenChar) /\ s # <<>> /\ s[1] \in isAlpha \cup {"*"}

\* RFC 8941, sections 3.3 and 4.1: the texts of a bare item.
Spells(s, val) ==
    \/ \E b \in BOOLEAN : val = [bool |-> b] /\ s = <<"?", IF b THEN "1" ELSE "0">>
    \/ \E d \in Numerals :
         \/ val = [int |-> ParseInt(d)] /\ s = d
         \/ val = [int |-> -ParseInt(d)] /\ s = <<"-">> \o d
    \/ val = [tok |-> s] /\ IsToken(s)
    \/ /\ "str" \in DOMAIN val /\ val = [str |-> val.str]
       /\ val.str \in Seq(ToSet(val.str) \ (Unprintables \cup {"EOF"}))
       /\ s = writeString(val.str)
    \/ LET body == SubSeq(s, 2, Len(s) - 1)
       IN  /\ s = <<":">> \o body \o <<":">> /\ body \in Seq(isBase64Char) /\ ValidBase64(body)
           /\ val = [bin |-> DecodeBase64(body)]

\* The peer keeps to the grammar.
ASSUME PeerAssumption ==
    /\ \A v \in Vocabularies :
         /\ v.maxSteps \in Nat
         /\ \A key \in v.keys : IsToken(key)
         /\ \A b \in v.spellings : Spells(b.text, b.val)
    /\ \A sep \in Separators :
         /\ sep \in Seq(Blank \cup {Comma})
         /\ \E i \in 1..Len(sep) : \A j \in 1..Len(sep) : sep[j] = Comma <=> j = i

VARIABLES vocabulary, \* what the peer writes with
          members,    \* what was written, as a sequence of [key, member]
          written,    \* the text of it
          open,       \* an inner list is not closed yet
          flag,       \* the last member is a key alone
          oddFlag,    \* some key alone is followed by a blank or by parameters
          steps

pvars == <<vocabulary, members, written, open, flag, oddFlag, steps>>

PeerKeys  == vocabulary.keys
Spellings == vocabulary.spellings

PInit == /\ vocabulary \in Vocabularies
         /\ members = <<>> /\ written = <<>> /\ steps = 0
         /\ open = FALSE /\ flag = FALSE /\ oddFlag = FALSE

Step == /\ steps < vocabulary.maxSteps /\ steps' = steps + 1
        /\ UNCHANGED vocabulary

\* The next member begins with a key and a comma before it.
Member(key, member, text) ==
    /\ ~open
    /\ members' = Append(members, [key |-> key, member |-> member])
    /\ \E sep \in IF members = <<>> THEN {<<>>} ELSE Separators :
         /\ written' = written \o sep \o key \o text
         /\ oddFlag' = (oddFlag \/ (flag /\ sep[1] \in Blank))

Item(val) == [val |-> val, params |-> <<>>]

WriteFlag ==
    /\ Step
    /\ \E key \in PeerKeys : Member(key, Item(BareTrue), <<>>)
    /\ flag' = TRUE
    /\ UNCHANGED open

WriteItem ==
    /\ Step
    /\ \E key \in PeerKeys, b \in Spellings : Member(key, Item(b.val), <<"=">> \o b.text)
    /\ flag' = FALSE
    /\ UNCHANGED open

OpenList ==
    /\ Step
    /\ \E key \in PeerKeys, blanks \in {<<>>, <<SP>>} :
         Member(key, [items |-> <<>>, params |-> <<>>], <<"=", "(">> \o blanks)
    /\ open' = TRUE
    /\ flag' = FALSE

Current == members[Len(members)].member

\* Items of an inner list are kept apart by spaces.
AddToList ==
    /\ Step /\ open
    /\ \E b \in Spellings, n \in 1..2 :
         /\ members' = [members EXCEPT ![Len(members)].member.items = Append(@, Item(b.val))]
         /\ written' = written \o (IF Current.items = <<>> THEN <<>> ELSE [k \in 1..n |-> SP]) \o b.text
    /\ UNCHANGED <<open, flag, oddFlag>>

CloseList ==
    /\ Step /\ open
    /\ \E blanks \in {<<>>, <<SP>>} : written' = written \o blanks \o <<")">>
    /\ open' = FALSE
    /\ UNCHANGED <<members, flag, oddFlag>>

\* A parameter belongs to what was written last: an item of the open inner
\* list, the inner list, or the item of the member.
AddParameter ==
    /\ Step /\ members # <<>> /\ (open => Current.items # <<>>)
    /\ \E key \in PeerKeys, b \in Spellings \cup {[text |-> <<>>, val |-> BareTrue]} :
         LET p == [key |-> key, val |-> b.val]
         IN  /\ members' = IF open
                           THEN [members EXCEPT ![Len(members)].member.items[Len(Current.items)].params
                                   = Append(@, p)]
                           ELSE [members EXCEPT ![Len(members)].member.params = Append(@, p)]
             /\ written' = written \o <<Semicolon>> \o key
                             \o (IF b.text = <<>> THEN <<>> ELSE <<"=">>) \o b.text
    /\ oddFlag' = (oddFlag \/ flag)
    /\ UNCHANGED <<open, flag>>

PNext == WriteFlag \/ WriteItem \/ OpenList \/ AddToList \/ CloseList \/ AddParameter

PSpec == PInit /\ [][PNext]_pvars

-----------------------------------------------------------------------------
\* A dictionary is what the members mean: it has every key, in the order of the first
\* members with it, and the last member with each.
Means(dict) ==
    LET n == Len(members)
    IN  /\ \A m \in 1..n : \E i \in 1..Len(dict) : dict[i].key = members[m].key
        /\ \A i \in 1..Len(dict) : \E m \in 1..n :
             dict[i] = members[m] /\ \A k \in (m + 1)..n : members[k].key # members[m].key
        /\ \A j \in 1..Len(dict) : \A i \in 1..(j - 1) : \E m \in 1..n :
             members[m].key = dict[i].key /\ \A k \in 1..m : members[k].key # dict[j].key

BareWithin(v) ==
    CASE "tok" \in DOMAIN v -> ~Exceeds(Len(v.tok), Limits.MaxTokenLength)
      [] "str" \in DOMAIN v -> ~Exceeds(Len(writeString(v.str)) - 2, Limits.MaxStringLength)
      [] "bin" \in DOMAIN v -> ~Exceeds(Len(v.bin), Limits.MaxByteSequenceLength)
      [] OTHER -> TRUE

ParamsWithin(params) ==
    /\ ~Exceeds(Len(params), Limits.MaxParameters)
    /\ \A i \in 1..Len(params) : /\ ~Exceeds(Len(params[i].key), Limits.MaxTokenLength)
                                 /\ BareWithin(params[i].val)

ItemWithin(item) == BareWithin(item.val) /\ ParamsWithin(item.params)

MemberWithin(m) ==
    IF "val" \in DOMAIN m THEN ItemWithin(m)
    ELSE /\ ~Exceeds(Len(m.items), Limits.MaxInnerListMembers)
         /\ \A i \in 1..Len(m.items) : ItemWithin(m.items[i])
         /\ ParamsWithin(m.params)

\* No member comes when there are as many different keys as the limit allows,
\* also if it has one of them.
WithinLimits ==
    /\ checkInputLength(written)
    /\ \A i \in 1..Len(members) :
         /\ ~Exceeds(Cardinality({members[j].key : j \in 1..(i - 1)}) + 1,
                     Limits.MaxDictionaryMembers)
         /\ ~Exceeds(Len(members[i].key), Limits.MaxTokenLength)
         /\ MemberWithin(members[i].member)

\* sfv.ParseDictionary: a dictionary in any spelling of the grammar is read
\* completely and as what it means if it keeps to the limits, and refused if
\* it exceeds one of them, however the two are spread over the text.
EverySpellingIsRead ==
    LET read == ParseDictionary(written)
    IN  ~open /\ ~oddFlag =>
          IF WithinLimits THEN read.ok /\ read.at = Len(written) + 1 /\ Means(read.val)
          ELSE ~read.ok
=============================================================================
