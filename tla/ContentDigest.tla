---------------------------- MODULE ContentDigest ----------------------------
(***************************************************************************)
(* pkg/digest: a Content-Digest header is written for a body, both travel, *)
(* and the receiver verifies the one against the other, with the body in   *)
(* memory or as a stream that may end early or fail.                       *)
(*                                                                         *)
(* A digest is the record [alg, of, len] of the algorithm and the bytes it *)
(* was computed from: the hash functions are external and free of          *)
(* collisions.  A header is the sequence of the dictionary's members       *)
(* [key, value] as they are in the text; a value that is no byte sequence  *)
(* is NotBytes, and text that no comma separates from what is before it,   *)
(* or that is no member, is Junk.                                          *)
(*                                                                         *)
(* The limits of the parser are left out: nothing the package writes comes *)
(* near them, a header with more members than they allow names an          *)
(* unsupported algorithm, and a longer one is refused.                     *)
(***************************************************************************)
EXTENDS Integers, Sequences, FiniteSets

CONSTANTS
    Names,      \* every algorithm name in play, in alphabetical order
    Bodies,     \* the bodies a sender may send, sequences of bytes
    Required,   \* the lists of algorithms a receiver may require
    MaxRewrites \* bound: changes on the way

AllNames == {Names[i] : i \in 1..Len(Names)}
Octets   == UNION {{b[i] : i \in 1..Len(b)} : b \in Bodies}

ASSUME DigestAssumption ==
    /\ Names \in Seq(STRING)
    /\ \A i, j \in 1..Len(Names) : Names[i] = Names[j] => i = j
    /\ Bodies \subseteq Seq(Octets)
    /\ Required \subseteq Seq(STRING)

NotBytes == [len |-> 0]
Junk     == [key |-> "", value |-> NotBytes]

-----------------------------------------------------------------------------
(* The three tables of algorithms; algorithms.go and parse.go.             *)

SupportedAlgorithms == {"sha-256", "sha-512", "sha-512/256", "sha3-256", "sha3-512",
                        "blake2b-256", "blake2b-512"}

\* Mutant: one name is missing from the table of lengths.
lengthsWithoutTruncated(algorithm) ==
    CASE algorithm \in {"sha-256", "sha3-256", "blake2b-256"} -> 32
      [] algorithm \in {"sha-512", "sha3-512", "blake2b-512"} -> 64
      [] OTHER -> -1

getExpectedDigestLength(algorithm) ==
    CASE algorithm \in {"sha-256", "sha-512/256", "sha3-256", "blake2b-256"} -> 32
      [] algorithm \in {"sha-512", "sha3-512", "blake2b-512"}                -> 64
      [] OTHER                                                              -> -1

\* The hash functions NewDigester has a case for, with the bytes of their sum.
Sums256 == {"sha-256", "sha-512/256", "sha3-256", "blake2b-256"}
Sums512 == {"sha-512", "sha3-512", "blake2b-512"}
Hashes  == [a \in Sums256 \cup Sums512 |-> IF a \in Sums256 THEN 32 ELSE 64]

NewDigesterOk(algorithm) == algorithm \in DOMAIN Hashes

\* hash.Hash.Sum after the bytes were written.
Sum(algorithm, bytes) == [alg |-> algorithm, of |-> bytes, len |-> Hashes[algorithm]]

-----------------------------------------------------------------------------
(* format.go, parse.go                                                     *)

\* sort.Strings: the k-th of some names is the one up to which there are k.
Position(a) == CHOOSE i \in 1..Len(Names) : Names[i] = a
UpTo(a, S)  == {b \in S : Position(b) <= Position(a)}
Sorted(S)   == [k \in 1..Cardinality(S) |-> CHOOSE a \in S : Cardinality(UpTo(a, S)) = k]

\* digests maps names to digests; the members are sorted by name.
FormatContentDigest(digests) ==
    LET names == Sorted(DOMAIN digests)
    IN  [i \in 1..Cardinality(DOMAIN digests) |->
           [key |-> names[i], value |-> digests[names[i]]]]

\* sfv.ParseDictionary: of several members of a name the last one counts, and
\* junk after a member silently ends the dictionary.  (Junk at the start is an
\* error; here the dictionary is empty, which ParseContentDigest refuses too.)
ParseDictionary(header) ==
    LET Taken   == {i \in 1..Len(header) : \A j \in 1..i : header[j] # Junk}
        At(key) == CHOOSE i \in Taken :
                     /\ header[i].key = key
                     /\ \A j \in Taken : j > i => header[j].key # key
    IN  [key \in {header[i].key : i \in Taken} |-> header[At(key)].value]

\* One member that is no digest of a supported algorithm spoils the header, also
\* where nobody requires it.
ParseContentDigest(header) ==
    LET dict == ParseDictionary(header)
    IN  IF DOMAIN dict = {} \/ \E key \in DOMAIN dict :
             \/ dict[key] = NotBytes
             \/ key \notin SupportedAlgorithms
             \/ dict[key].len # getExpectedDigestLength(key)
        THEN [ok |-> FALSE]
        ELSE [ok |-> TRUE, digests |-> dict]

-----------------------------------------------------------------------------
(* verify.go                                                               *)

\* VerifyContentDigestBytes: each required algorithm in turn.
VerifyContentDigestBytes(body, header, required) ==
    LET parsed == ParseContentDigest(header)
    IN  /\ required # <<>>
        /\ parsed.ok
        /\ \A i \in 1..Len(required) :
             /\ required[i] \in DOMAIN parsed.digests
             /\ NewDigesterOk(required[i])
             /\ Sum(required[i], body) = parsed.digests[required[i]]

VARIABLES
    body,     \* the body as it was sent
    header,   \* the Content-Digest header as it is now
    input,    \* the bytes the reader has still to deliver
    received, \* the bytes it has delivered
    required, \* the algorithms the receiver requires
    hashers,  \* the bytes written to the hash of each required algorithm
    outcome,  \* "none", "reading", "accepted", "refused", or "failed" with the reader
    rewrites, \* changes made on the way
    forged    \* one of them touched the header

dvars == <<body, header, input, received, required, hashers, outcome, rewrites, forged>>

NoHashers == [a \in {} |-> <<>>]

DInit ==
    /\ body \in Bodies
    /\ \E algs \in (SUBSET {a \in AllNames : NewDigesterOk(a)}) \ {{}} :
         header = FormatContentDigest([a \in algs |-> Sum(a, body)])
    /\ input = body
    /\ received = <<>>
    /\ required = <<>>
    /\ hashers = NoHashers
    /\ outcome = "none"
    /\ rewrites = 0
    /\ forged = FALSE

\* The body changes on the way, or the connection ends before its end.
RewriteBody ==
    /\ outcome = "none" /\ rewrites < MaxRewrites
    /\ input' \in Bodies \cup {SubSeq(input, 1, n) : n \in 0..Len(input)}
    /\ rewrites' = rewrites + 1
    /\ UNCHANGED <<body, header, received, required, hashers, outcome, forged>>

\* The header gains a member, at either end: a digest of this or of another
\* body, of another algorithm, cut short, or no digest at all; or it gains junk.
RewriteHeader ==
    /\ outcome = "none" /\ rewrites < MaxRewrites
    /\ \E key \in AllNames, a \in DOMAIN Hashes \cap AllNames, b \in {body, input} :
           \E value \in {Sum(a, b), [Sum(a, b) EXCEPT !.len = 1], NotBytes} :
         \E member \in {[key |-> key, value |-> value], Junk} :
           header' \in {Append(header, member), <<member>> \o header}
    /\ rewrites' = rewrites + 1
    /\ forged' = TRUE
    /\ UNCHANGED <<body, input, received, required, hashers, outcome>>

\* VerifyContentDigest up to the copy: one hash for each required algorithm.
VerifyContentDigest ==
    /\ outcome = "none"
    /\ required' \in Required
    /\ LET parsed == ParseContentDigest(header)
           named  == {required'[i] : i \in 1..Len(required')}
       IN  IF /\ required' # <<>> /\ parsed.ok
              /\ \A a \in named : a \in DOMAIN parsed.digests /\ NewDigesterOk(a)
           THEN outcome' = "reading" /\ hashers' = [a \in named |-> <<>>]
           ELSE outcome' = "refused" /\ UNCHANGED hashers
    /\ UNCHANGED <<body, header, input, received, rewrites, forged>>

\* Mutant: each piece starts the hashes anew.
ReadRestarting ==
    /\ outcome = "reading"
    /\ \E n \in 1..Len(input) :
         /\ hashers' = [a \in DOMAIN hashers |-> SubSeq(input, 1, n)]
         /\ received' = received \o SubSeq(input, 1, n)
         /\ input' = SubSeq(input, n + 1, Len(input))
    /\ UNCHANGED <<body, header, required, outcome, rewrites, forged>>

\* One Read of io.Copy: the multi-writer writes what it delivers to every hash.
Read ==
    /\ outcome = "reading"
    /\ \E n \in 1..Len(input) :
         /\ hashers' = [a \in DOMAIN hashers |-> hashers[a] \o SubSeq(input, 1, n)]
         /\ received' = received \o SubSeq(input, 1, n)
         /\ input' = SubSeq(input, n + 1, Len(input))
    /\ UNCHANGED <<body, header, required, outcome, rewrites, forged>>

\* Mutant: the error of io.Copy is dropped, what came counts.
ReadErrorDropped ==
    /\ outcome = "reading"
    /\ outcome' = IF \A a \in DOMAIN hashers :
                       Sum(a, hashers[a]) = ParseContentDigest(header).digests[a]
                  THEN "accepted" ELSE "refused"
    /\ UNCHANGED <<body, header, input, received, required, hashers, rewrites, forged>>

\* The reader fails: the digests of what came are not looked at.
ReadError ==
    /\ outcome = "reading"
    /\ outcome' = "failed"
    /\ UNCHANGED <<body, header, input, received, required, hashers, rewrites, forged>>

\* End of the stream: every required digest is compared.
Compare ==
    /\ outcome = "reading" /\ input = <<>>
    /\ LET parsed == ParseContentDigest(header)
       IN  outcome' = IF \A a \in DOMAIN hashers :
                           Sum(a, hashers[a]) = parsed.digests[a]
                      THEN "accepted" ELSE "refused"
    /\ UNCHANGED <<body, header, input, received, required, hashers, rewrites, forged>>

DNext == RewriteBody \/ RewriteHeader \/ VerifyContentDigest \/ Read \/ ReadError \/ Compare

DSpec == DInit /\ [][DNext]_dvars

-----------------------------------------------------------------------------
\* The two verification functions are one: whatever the sizes of its pieces a
\* stream is accepted only at its end, if VerifyContentDigestBytes accepts the
\* same bytes in memory, and refused only if that refuses them; where the reader
\* fails it is never accepted.
StreamingAgrees ==
    /\ outcome = "accepted" =>
         input = <<>> /\ VerifyContentDigestBytes(received, header, required)
    /\ outcome = "refused" =>
         ~VerifyContentDigestBytes(received \o input, header, required)

\* Content-Digest protects the body: where nobody forged the header, what is
\* accepted is what was sent, cut or changed bodies are not.
BodyIntact == outcome = "accepted" /\ ~forged => received = body

\* Every header the package writes for digests it computes, it also reads, with
\* the same digests: the tables of names, lengths and hash functions agree.
WrittenIsRead ==
    ~forged => LET parsed == ParseContentDigest(header)
               IN  /\ parsed.ok
                   /\ FormatContentDigest(parsed.digests) = header
=============================================================================
