---------------------------- MODULE KeyExchange ----------------------------
(***************************************************************************)
(* A signer that reads its private key from a file and a verifier that     *)
(* reads the public key from another: signing/keys.go together with the    *)
(* checks of the algorithms in Signing.  Either side may use the lenient   *)
(* or a strict function.  The library's arithmetic is not modelled: a      *)
(* signature fits the key pair that made it, and it has its right length.  *)
(***************************************************************************)
EXTENDS KeyParsing

CONSTANT None \* nobody has signed or verified yet

\* What is signed.
Base == "base"
ASSUME KeyExchangeAssumption == Base # EmptyBase

VARIABLES privateFile, \* the file of the signer
          publicFile,  \* the file of the verifier
          signer,      \* who has signed: [parser, alg, key], or None
          verifier,    \* the parser of who has verified, or None
          verdict      \* "none", then of Sign "signed" or "refused", then of
                       \* Verify "accepted" or "rejected"

kvars == <<privateFile, publicFile, signer, verifier, verdict>>

KInit ==
    /\ privateFile \in Files /\ publicFile \in Files
    /\ signer = None /\ verifier = None
    /\ verdict = "none"

PrivateParsers == {"ParsePrivateKey", "ParsePKCS8PrivateKey", "ParsePKCS1PrivateKey",
                   "ParseSEC1PrivateKey"}
PublicParsers  == {"ParsePublicKey", "ParsePKIXPublicKey", "ParsePKCS1PublicKey"}

PrivateKeyBy(parser, file) ==
    CASE parser = "ParsePrivateKey"      -> ParsePrivateKey(file)
      [] parser = "ParsePKCS8PrivateKey" -> ParsePKCS8PrivateKey(file)
      [] parser = "ParsePKCS1PrivateKey" -> ParsePKCS1PrivateKey(file)
      [] parser = "ParseSEC1PrivateKey"  -> ParseSEC1PrivateKey(file)

PublicKeyBy(parser, file) ==
    CASE parser = "ParsePublicKey"      -> ParsePublicKey(file)
      [] parser = "ParsePKIXPublicKey"  -> ParsePKIXPublicKey(file)
      [] parser = "ParsePKCS1PublicKey" -> ParsePKCS1PublicKey(file)

\* A signature of the length the algorithm's library returns.
SignatureBytes(alg) ==
    CASE alg = "hmac-sha256"       -> [i \in 1..macLen |-> 0]
      [] alg = "ed25519"           -> [i \in 1..edLen |-> 0]
      [] alg = "ecdsa-p256-sha256" -> [i \in 1..(2 * p256Len) |-> 0]
      [] alg = "ecdsa-p384-sha384" -> [i \in 1..(2 * p384Len) |-> 0]
      [] OTHER                     -> [i \in 1..1 |-> 0]

CanSign(parsed, alg) == parsed.ok /\ SignChecks(alg, Base, parsed.key) = "call"
CanVerify(parsed, alg) ==
    parsed.ok /\ VerifyChecks(alg, Base, SignatureBytes(alg), parsed.key) = "call"

SignWith(parser, alg) ==
    LET parsed == PrivateKeyBy(parser, privateFile)
    IN  /\ verdict = "none"
        /\ signer' = [parser |-> parser, alg |-> alg,
                      key |-> IF parsed.ok THEN parsed.key ELSE NoKey]
        /\ verdict' = IF CanSign(parsed, alg) THEN "signed" ELSE "refused"
        /\ UNCHANGED <<privateFile, publicFile, verifier>>

VerifyWith(parser) ==
    LET parsed == PublicKeyBy(parser, publicFile)
    IN  /\ verdict = "signed"
        /\ verifier' = parser
        /\ verdict' = IF CanVerify(parsed, signer.alg) /\ parsed.key.of = signer.key.of
                      THEN "accepted" ELSE "rejected"
        /\ UNCHANGED <<privateFile, publicFile, signer>>

KNext == \/ \E parser \in PrivateParsers, alg \in Algorithms : SignWith(parser, alg)
         \/ \E parser \in PublicParsers : VerifyWith(parser)

KSpec == KInit /\ [][KNext]_kvars

-----------------------------------------------------------------------------
\* The formats a function is documented to read.
FormsRead(parser) ==
    CASE parser = "ParsePrivateKey"      -> {"PKCS8", "PKCS1", "SEC1"}
      [] parser = "ParsePKCS8PrivateKey" -> {"PKCS8"}
      [] parser = "ParsePKCS1PrivateKey" -> {"PKCS1"}
      [] parser = "ParseSEC1PrivateKey"  -> {"SEC1"}
      [] parser = "ParsePublicKey"       -> {"PKIX", "PKCS1Public"}
      [] parser = "ParsePKIXPublicKey"   -> {"PKIX"}
      [] parser = "ParsePKCS1PublicKey"  -> {"PKCS1Public"}

\* The file begins with a key of pair p in a format the function is for.
Holds(file, p, parser) ==
    /\ file.blocks # <<>> /\ file.blocks[1].pair = p
    /\ file.blocks[1].form \in FormsRead(parser)

PublicFilesOf(p) ==
    UNION {FilesOf(Structure(form, p)) : form \in PublicForms(p.kind)}

\* Whatever the signer read its private key from, if an algorithm has signed with
\* it, a verifier that reads the other half, from a file its function is for,
\* accepts: the formats, the smallest RSA modulus, the Go types and the curves
\* agree between five parsers and twelve methods.
SignedIsAccepted ==
    verdict = "rejected" =>
      \A p \in KeyPairs : p.of = signer.key.of => ~Holds(publicFile, p, verifier)

\* Who is refused as a signer, with a file the function is for, could not have
\* been verified with any form of its public key either.
RefusedOnBothSides ==
    verdict = "refused" =>
      \A p \in KeyPairs : Holds(privateFile, p, signer.parser) =>
        \A f \in PublicFilesOf(p) : ~CanVerify(ParsePublicKey(f), signer.alg)

\* A strict function returns the key that the function that tries all formats in
\* turn returns: no attempt takes a file that a later one would read.
StrictIsLenient ==
    /\ verdict \in {"signed", "accepted", "rejected"} =>
         ParsePrivateKey(privateFile) = Parsed(signer.key)
    /\ verdict = "accepted" =>
         ParsePublicKey(publicFile) = PublicKeyBy(verifier, publicFile)
=============================================================================
