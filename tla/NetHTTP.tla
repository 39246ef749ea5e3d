------------------------------ MODULE NetHTTP ------------------------------
(***************************************************************************)
(* What happens to a message between two programs that use net/http.  All  *)
(* of it is external to the library; it is modelled from the fields of     *)
(* http.Request and http.Response that pkg/base reads.                     *)
(***************************************************************************)
EXTENDS SignatureBase

\* What a server's net/http makes of the request: an empty method is GET, an
\* empty path is /, the Host overrides the URL's, neither userinfo nor fragment
\* are sent, and scheme and host are in the connection and the Host header, not
\* in the URL.  (That userinfo becomes an Authorization field is left out.)
ServerURL(url) ==
    [scheme |-> "", opaque |-> "", user |-> "", host |-> "",
     path |-> IF url.opaque # "" THEN url.opaque ELSE PathOrSlash(url),
     forceQuery |-> url.forceQuery /\ url.query = <<>>,
     query |-> url.query, fragment |-> ""]

ServerView(req) ==
    [req EXCEPT
       !.method = IF @ = "" THEN "GET" ELSE @,
       !.Host   = IF @ # "" THEN @ ELSE req.url.host,
       !.tls    = req.url.scheme = "https",
       !.url    = ServerURL(@)]

\* An intermediary makes one line of the lines of a field, without the blanks
\* around them.
Combined(lines) == JoinComma([i \in 1..Len(lines) |-> TrimSpace(lines[i])])

-----------------------------------------------------------------------------
\* A request as programs make it; net/http sends requests to http and https
\* URLs only.
RequestShape(q) ==
    /\ q = [kind |-> "request", method |-> q.method, url |-> q.url, Host |-> q.Host,
            tls |-> q.tls, header |-> q.header, trailer |-> q.trailer]
    /\ q.url # NoURL =>
         /\ q.url = [scheme |-> q.url.scheme, opaque |-> q.url.opaque, user |-> q.url.user,
                     host |-> q.url.host, path |-> q.url.path,
                     forceQuery |-> q.url.forceQuery, query |-> q.url.query,
                     fragment |-> q.url.fragment]
         /\ q.url.scheme \in {"", "http", "https"}
         /\ ServerURL(q.url) # NoURL

\* The requests whose client and server forms the code treats alike: no Host
\* that differs from the URL's, and nothing net/http fills in, drops or sends in
\* another place.
Portable(req) ==
    /\ req.url # NoURL
    /\ req.url.scheme # "" /\ req.url.host # ""
    /\ req.Host \in {"", req.url.host}
    /\ req.method # ""
    /\ req.url.user = "" /\ req.url.opaque = ""

\* @target-uri has the path as the client wrote it, the fragment, and the ? of an
\* empty query.
URISafe(comp, req) ==
    comp.name = "@target-uri" =>
      /\ req.url.path # "" /\ req.url.fragment = ""
      /\ req.url.forceQuery => req.url.query # <<>>

\* A blank last line leaves a comma at the end, after which the blank that
\* follows it is trimmed: lines combine without loss only if none is blank.
NoBlankLine(req) ==
    \A name \in DOMAIN req.header : \A i \in 1..Len(req.header[name]) :
      \E j \in 1..Len(req.header[name][i]) : req.header[name][i][j] \notin Blank
=============================================================================
