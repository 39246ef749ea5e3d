--------------------------- MODULE RequestTransit ---------------------------
(***************************************************************************)
(* A request on its way from the client that signs it to the server that   *)
(* verifies it.  The client's http.Request has an absolute URL, the        *)
(* server's a relative one and a Host; in between an intermediary may      *)
(* combine field lines, add fields of its own or terminate TLS.  The       *)
(* module asks which components of pkg/base survive the trip.              *)
(*                                                                         *)
(* What net/http sends and receives is external; it is modelled from the   *)
(* fields WrapRequest and resolveRequestURL read.                          *)
(***************************************************************************)
EXTENDS NetHTTP

CONSTANTS Requests,  \* the requests a client composes
          Components \* component identifiers that may be covered

\* What a text and a query string are made of.
Symbols(lines) == UNION {{lines[i][j] : j \in 1..Len(lines[i])} : i \in 1..Len(lines)}
Atoms(query)   == {query[i][k] : i \in 1..Len(query), k \in {1, 2}}

\* net/http sends no field line with a newline, and a # ends the query of a URL.
ASSUME TransitAssumption ==
    \A q \in Requests :
      /\ RequestShape(q)
      /\ \A name \in DOMAIN q.header :
           /\ q.header[name] \in Seq(Seq(Symbols(q.header[name])))
           /\ Symbols(q.header[name]) \cap (Newline \cup {"invalid"}) = {}
      /\ q.url # NoURL => /\ q.url.query \in Seq(Atoms(q.url.query) \X Atoms(q.url.query))
                         /\ "#" \notin Atoms(q.url.query)

VARIABLES sent,  \* the request as the client signed it
          seen,  \* the request as it is now
          stage, \* "client", "wire" or "server"
          proxyTLS \* some hop terminated TLS

tvars == <<sent, seen, stage, proxyTLS>>

TInit ==
    /\ sent \in Requests
    /\ seen = sent
    /\ stage = "client"
    /\ proxyTLS = FALSE

Send ==
    /\ stage = "client" /\ stage' = "wire"
    /\ seen.url # NoURL
    /\ seen' = ServerView(seen)
    /\ UNCHANGED <<sent, proxyTLS>>

\* An intermediary joins the lines of one field, without the blanks around
\* them, into a single line.
CombineLines ==
    /\ stage = "wire"
    /\ \E name \in DOMAIN seen.header :
         /\ Len(seen.header[name]) > 1
         /\ seen' = [seen EXCEPT !.header[name] = <<Combined(@)>>]
    /\ UNCHANGED <<sent, stage, proxyTLS>>

\* An intermediary adds a field the client did not send.
AddField ==
    /\ stage = "wire"
    /\ "Via" \notin DOMAIN seen.header
    /\ seen' = [seen EXCEPT !.header =
                  [n \in DOMAIN @ \cup {"Via"} |-> IF n = "Via" THEN << <<"p">> >> ELSE @[n]]]
    /\ UNCHANGED <<sent, stage, proxyTLS>>

\* TLS ends at an intermediary that forwards in the clear.
TerminateTLS ==
    /\ stage = "wire" /\ seen.tls
    /\ seen' = [seen EXCEPT !.tls = FALSE]
    /\ proxyTLS' = TRUE
    /\ UNCHANGED <<sent, stage>>

Receive ==
    /\ stage = "wire" /\ stage' = "server"
    /\ UNCHANGED <<sent, seen, proxyTLS>>

TNext == Send \/ CombineLines \/ AddField \/ TerminateTLS \/ Receive

TSpec == TInit /\ [][TNext]_tvars

-----------------------------------------------------------------------------
\* Components that name the scheme depend on where TLS ends.
SchemeSafe(comp) == comp.name \in {"@scheme", "@target-uri"} => ~proxyTLS

\* WrapRequest reconstructs on the server what the client signed: whatever the
\* intermediaries do to the form of the request, every component value the
\* client could extract is extracted again, unchanged.
ComponentsSurvive ==
    \A comp \in Components :
      LET before == extractComponentValue(sent, comp)
          clean  == /\ stage = "server" /\ Portable(sent) /\ NoBlankLine(sent)
                    /\ SchemeSafe(comp) /\ URISafe(comp, sent)
      IN  clean /\ before.ok => extractComponentValue(seen, comp) = before

DerivedComponent(name) == [name |-> name, type |-> "derived", params |-> <<>>]
Value(msg, name) == extractComponentValue(msg, DerivedComponent(name))

\* extract.go: @target-uri is the "Complete request URI": on one side of the
\* connection, two requests with the same @target-uri agree on every component
\* taken from the URL, so that covering it covers them (of an opaque URL it has
\* neither host nor path).  And the pieces are not cut differently: @scheme,
\* @authority and @request-target together cover as much on the server as
\* @target-uri does.
TargetURIIsComplete ==
    LET Agree(a, b, names) == \A name \in names : Value(a, name) = Value(b, name)
        Hierarchical(r) == r.url # NoURL /\ r.url.opaque = ""
    IN  Hierarchical(sent) => \A other \in {r \in Requests : Hierarchical(r)} :
          /\ Value(sent, "@target-uri").ok /\ Agree(sent, other, {"@target-uri"})
             => Agree(sent, other, {"@scheme", "@authority", "@path", "@query",
                                    "@request-target"})
          /\ Agree(ServerView(sent), ServerView(other),
                   {"@scheme", "@authority", "@request-target"})
             => Agree(ServerView(sent), ServerView(other), {"@target-uri"})
=============================================================================
