-------------------------- MODULE MCSignatureInput --------------------------
(* The header exchange and the headers of several parties, side by side:     *)
(* each proceeds only while the other has not begun.  Components and         *)
(* parameters lie on both sides of every check of the reader; up to three    *)
(* parties sign under labels that may repeat, one of them no key, and what   *)
(* damage leaves is an item and a list the readers refuse.                   *)
EXTENDS SignatureInputExchange, SignatureHeaders, TLC

CONSTANTS sig1, sig2, notAKey

MCIdentity(x) == x
MCPair(x, y) == x
MCText(x) == <<x>>
MCWritten(id) ==
    FoldLeft(LAMBDA text, p : text \o ";" \o p.key \o "=" \o ToString(p.value),
             id.name, id.params)

P(key, value) == [key |-> key, value |-> value]
C(name, type, ps) == [name |-> name, type |-> type, params |-> ps]

MCComponentSet ==
    { C("@method", "derived", <<>>), C("@method", "field", <<>>),
      C("@unknown", "derived", <<>>), C("@signature-params", "derived", <<>>),
      C("date", "field", <<>>), C("date", "derived", <<>>),
      C("non-ascii", "field", <<>>),
      C("@query-param", "derived", <<>>),
      C("@query-param", "derived", <<P("name", Str("a"))>>),
      C("@query-param", "derived", <<P("name", Int64(1))>>),
      C("date", "field", <<P("bs", True), P("sf", True)>>),
      C("date", "field", <<P("bs", [bool |-> FALSE]), P("key", Str("a"))>>),
      C("date", "field", <<P("key", Str("a"))>>),
      C("date", "field", <<P("key", Str("a")), P("sf", [tok |-> "t"])>>),
      C("date", "field", <<P("req", True), P("req", NilItem)>>),
      C("date", "field", <<P("x", Int64(10)), P("y", Int64(11))>>),
      C("date", "field", <<P("1x", True)>>) }

MCComponentLists ==
    { <<>> } \cup { <<c>> : c \in MCComponentSet }
      \cup { <<C("date", "field", <<>>), c>> : c \in MCComponentSet }
      \cup { <<c, c, C("date", "field", <<>>)>> : c \in MCComponentSet }

MCParamSets ==
    { NoParams, [NoParams EXCEPT !.tag = Str("t")] }
      \cup { [NoParams EXCEPT !.created = c, !.keyid = k] :
               c \in {Int64(0), Int64(11)}, k \in {Absent, Str("k"), Str("non-ascii")} }
      \cup { [created |-> Int64(-3), expires |-> Int64(5), nonce |-> Str("n"),
              alg |-> Str("hmac-sha256"), keyid |-> Str("k"), tag |-> t] :
               t \in {Absent, Str("t")} }

Item(name) == [name |-> name, params |-> <<>>]
MCForeignMembers ==
    { [items |-> <<Item("date")>>,
       params |-> <<P("created", Int64(1)), P("keyid", Str("k")), P("nonce", Str("n"))>>],
      [items |-> <<Item("date")>>, params |-> <<P("keyid", Str("k")), P("keyid", Str("l"))>>],
      [items |-> <<>>, params |-> <<P("x", True), P("created", Int64(1))>>],
      [items |-> <<>>, params |-> <<P("created", Str("1"))>>],
      [items |-> <<Item("@unknown")>>, params |-> <<>>] }

MCLabels == {"sig1", "sig2", "1sig"}
MCUnprintable == {"non-ascii"}
MCBadKeys == {"1sig", "1x", notAKey}

MCPartyLabels == {sig1, sig2, notAKey}
LabelsSymmetry == Permutations({sig1, sig2})

Nonce(n) == <<[key |-> "nonce", value |-> Str(n)]>>
MCMembers == { [items |-> <<Item("date")>>, params |-> Nonce(n)] : n \in {"a", "b"} }
MCValues == { Str("s"), [items |-> <<Item("@unknown")>>, params |-> <<>>] }

-----------------------------------------------------------------------------
MCInit == EInit /\ HInit

\* The headers of several parties are explored from one state of the exchange.
OneExchange ==
    origin = "nobody" /\ comps = <<>> /\ params = NoParams /\ label = "sig1"

MCNext ==
    \/ HInit /\ ENext /\ UNCHANGED hvars
    \/ OneExchange /\ HNext /\ UNCHANGED evars

MCSpec == MCInit /\ [][MCNext]_<<evars, hvars>>
=============================================================================
