------------------------- MODULE MCStructuredFields -------------------------
(* Texts of every grammar, fields of several lines, and dictionaries by    *)
(* another implementation, with limits that a few characters reach.        *)
EXTENDS StructuredFieldText, StructuredFieldPeer

MCLimits == [MaxInputLength |-> 16, MaxStringLength |-> 2, MaxByteSequenceLength |-> 1,
             MaxDictionaryMembers |-> 3, MaxInnerListMembers |-> 1, MaxParameters |-> 1,
             MaxTokenLength |-> 3]

MCChars == { <<c>> : c \in {"a", "1", "-", Quote, Escape, "?", "=", ";", ",", "(", ")", SP, Ctl} }
MCPieces == MCChars \cup { <<"b", "=">>, <<":", "a", "b", "=", "=", ":">>, <<":", "a", "b", "c", ":">>,
                           <<Quote, Escape, Quote, Quote>> }
MCMembers == { <<"a">>, <<"b">>, <<"=", "1">>, <<"=", Quote, ",", Quote>>, <<"=", "(", "a", ")">>,
               <<";", "a">>, <<",">>, <<SP>> }

\* Short texts of everything, longer ones of lists and of strings, and two lines.
Alphabet(ps, n, m) == [pieces |-> ps, maxPieces |-> n, maxLines |-> m]
AnyText     == Alphabet(MCPieces, 4, 1)
MCAlphabets == { AnyText, Alphabet(MCMembers, 3, 2),
                 Alphabet({ <<c>> : c \in {"a", ";", ",", "(", ")", SP, "="} }, 6, 1),
                 Alphabet({ <<c>> : c \in {"a", Quote, Escape, Ctl} }, 7, 1) }

\* Bare items of every type, in one canonical and one other spelling where
\* there are two, on both sides of their limits.
Spelled(spelling, val) == [text |-> spelling, val |-> val]
MCSpellings ==
    { Spelled(<<"?", "1">>, BareTrue),
      Spelled(<<"-", "0", "7">>, [int |-> -7]),
      Spelled(<<"*", "/", ":">>, [tok |-> <<"*", "/", ":">>]),
      Spelled(<<Quote, Escape, Quote, Quote>>, [str |-> <<Quote>>]),
      Spelled(<<Quote, ";", ",", ")", Quote>>, [str |-> <<";", ",", ")">>]),
      Spelled(<<":", "/", "w", ":">>, [bin |-> <<255>>]) }
MCSeparators == { <<",">>, <<SP, HT, ",", HT>> }

\* Many members, and members of everything.
Vocabulary(keys, spellings, n) == [keys |-> keys, spellings |-> spellings, maxSteps |-> n]
Everything == Vocabulary({ <<"a">>, <<"l", "o", "n", "g">> }, MCSpellings, 3)
MCVocabularies ==
    { Everything,
      Vocabulary({ <<"a">>, <<"b", "*">>, <<"c">> }, {b \in MCSpellings : "int" \in DOMAIN b.val}, 4) }

\* A field is put together piece by piece, or is a dictionary by the peer.
MCInit == XInit /\ PInit
MCNext == \/ vocabulary = Everything /\ steps = 0 /\ XNext /\ UNCHANGED pvars
          \/ alphabet = AnyText /\ lines = << <<>> >> /\ PNext /\ UNCHANGED xvars
MCSpec == MCInit /\ [][MCNext]_<<xvars, pvars>>
=============================================================================
