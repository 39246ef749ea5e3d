-------------------------- MODULE MCRequestTransit --------------------------
(* Client requests that differ in one or several of the parts components   *)
(* are taken from, and identifiers of every kind; side by side with one    *)
(* field that is built up from characters.  Each of the two proceeds only  *)
(* while the other has not begun.                                          *)
EXTENDS RequestTransit, FieldCanonicalization, TLC

Lower == {"x-a"}
MCKey(name) == IF name \in {"x-a", "X-a"} THEN "X-A" ELSE name
MCUnescape(atom) == CASE atom = "%61" -> <<"a">>
                      [] atom = "%0A" -> <<LF>>
                      [] atom = "%"   -> Invalid
                      [] OTHER        -> <<atom>>
MCWritten(id) == ToString(id)

\* A field is a structured field unless it holds "!"; its serialization drops
\* the blanks, so that it has one form.
Tight(text) == SelectSeq(text, LAMBDA c : c # SP)
MCStructured(text) ==
    IF \E i \in 1..Len(text) : text[i] = "!" THEN Invalid ELSE Tight(text)
MCMember(text, key) ==
    IF MCStructured(text) = Invalid \/ \A i \in 1..Len(text) : text[i] # key
    THEN Invalid ELSE <<key>>

Queries == { <<>>, << <<"%61", "%0A">> >>, << <<"a", "%">>, <<"a", "%61">> >> }
URLs == [scheme: {"https", "http"}, opaque: {""}, user: {""}, host: {"h", "h2"},
         path: {"", "/", "/p"}, forceQuery: {FALSE}, query: Queries, fragment: {"", "f"}]
OddURLs == [scheme: {"https"}, opaque: {"", "o"}, user: {"", "u@"}, host: {"h"},
            path: {"/p"}, forceQuery: BOOLEAN, query: Queries, fragment: {""}]

Headers == { [n \in {} |-> <<>>],
             "X-A" :> << <<"a", SP>> >>,
             "X-A" :> << <<"a">>, <<SP, "b", SP, "c">> >>,
             "X-A" :> << <<"!">>, <<SP>> >> }

Request(method, url, host, header) ==
    [kind |-> "request", method |-> method, url |-> url, Host |-> host,
     tls |-> FALSE, header |-> header, trailer |-> "X-T" :> << <<"t">> >>]

MCRequests ==
    { Request(m, u, h, hd) : m \in {"GET"}, u \in URLs \cup OddURLs, h \in {""}, hd \in {"X-A" :> << <<"a", SP>> >>} }
      \cup { Request(m, [scheme |-> "https", opaque |-> "", user |-> "", host |-> "h",
                         path |-> "/p", forceQuery |-> FALSE, query |-> <<>>,
                         fragment |-> ""], h, hd) :
               m \in {"", "POST"}, h \in {"", "h", "h2"}, hd \in Headers }
      \cup { Request("GET", NoURL, "h", "X-A" :> << <<"a">> >>) }

Param(key, value) == [key |-> key, value |-> value]
Field(name, params) == [name |-> name, type |-> "field", params |-> params]
MCComponents ==
    { DerivedComponent(n) : n \in {"@method", "@target-uri", "@authority", "@scheme",
        "@request-target", "@path", "@query", "@status", "@unknown"} }
      \cup { [name |-> "@query-param", type |-> "derived",
              params |-> <<Param("name", [str |-> v])>>] : v \in {"a", "b", ""} }
      \cup { Field("x-a", p) : p \in
               { <<>>, <<Param("sf", True)>>, <<Param("bs", True)>>,
                 <<Param("sf", True), Param("key", [str |-> "a"])>>,
                 <<Param("key", [str |-> "a"])>>,
                 <<Param("sf", [bool |-> FALSE])>>,
                 <<Param("sf", True), Param("bs", True)>>,
                 <<Param("req", True)>> } }
      \cup { Field("X-T", <<Param("tr", True)>>), Field("X-T", <<>>) }

-----------------------------------------------------------------------------
MCInit == TInit /\ FInit

\* The field is explored beside the request without a URL.
OneRequest == sent.url = NoURL /\ stage = "client"

MCNext ==
    \/ FInit /\ TNext /\ UNCHANGED fvars
    \/ OneRequest /\ FNext /\ UNCHANGED tvars

MCSpec == MCInit /\ [][MCNext]_<<tvars, fvars>>
=============================================================================
