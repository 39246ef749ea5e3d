----------------------------- MODULE KeyParsing -----------------------------
(***************************************************************************)
(* signing/keys.go: key files of several formats become the Go values that *)
(* the algorithms take.                                                    *)
(*                                                                         *)
(* A key pair is [kind, size, of] (see Signing for size and of).  A file   *)
(* is [pem, blocks]: the PEM blocks in it, or with pem FALSE its bytes as  *)
(* they are, one structure; a file of no bytes has none.  A structure is   *)
(* [form, pair], form the format it is written in: PKCS8, PKCS1 or SEC1 of *)
(* a private key, PKIX or PKCS1Public of a public key, or Other.  The      *)
(* label of a PEM block is not read by any function here.                  *)
(***************************************************************************)
EXTENDS Signing

CONSTANTS KeyPairs, \* the key pairs
          Other,    \* what is no key: parameters, a certificate, text
          NoKey     \* the key of a file that could not be read

Kinds == {"RSA", "ECDSA", "Ed25519", "X25519", "DSA"}

\* The formats a kind of key is written in.
PrivateForms(kind) == {"PKCS8"} \cup (IF kind = "RSA" THEN {"PKCS1"} ELSE {})
                                \cup (IF kind = "ECDSA" THEN {"SEC1"} ELSE {})
PublicForms(kind)  == {"PKIX"} \cup (IF kind = "RSA" THEN {"PKCS1Public"} ELSE {})

ASSUME KeyParsingAssumption ==
    /\ \A p \in KeyPairs : p.kind \in Kinds /\ (p.kind = "RSA" => p.size \in Nat)
    /\ \A p, q \in KeyPairs : p.of = q.of => p = q
    /\ Other \notin KeyPairs

Structure(form, pair) == [form |-> form, pair |-> pair]
PrivateStructures == UNION {{Structure(f, p) : f \in PrivateForms(p.kind)} : p \in KeyPairs}
PublicStructures  == UNION {{Structure(f, p) : f \in PublicForms(p.kind)} : p \in KeyPairs}
Structures == PrivateStructures \cup PublicStructures \cup {Structure("Other", Other)}

\* A file of one structure, and one with something else before the key.
FilesOf(der) == {[pem |-> FALSE, blocks |-> <<der>>], [pem |-> TRUE, blocks |-> <<der>>]}
Files == {[pem |-> FALSE, blocks |-> <<>>]}
           \cup (UNION {FilesOf(der) : der \in Structures})
           \cup {[pem |-> TRUE, blocks |-> <<Structure("Other", Other), der>>] : der \in Structures}

-----------------------------------------------------------------------------
(* crypto/x509: one decoder for each format, with the Go type it returns.  *)

Key(form, size, of) == [form |-> form, state |-> "set", size |-> size, of |-> of]

PrivateKeyOf(p) ==
    CASE p.kind = "RSA"     -> Key("*rsa.PrivateKey", p.size, p.of)
      [] p.kind = "ECDSA"   -> Key("*ecdsa.PrivateKey", p.size, p.of)
      [] p.kind = "Ed25519" -> Key("ed25519.PrivateKey", 64, p.of)
      [] p.kind = "X25519"  -> Key("*ecdh.PrivateKey", p.size, p.of)

PublicKeyOf(p) ==
    CASE p.kind = "RSA"     -> Key("*rsa.PublicKey", p.size, p.of)
      [] p.kind = "ECDSA"   -> Key("*ecdsa.PublicKey", p.size, p.of)
      [] p.kind = "Ed25519" -> Key("ed25519.PublicKey", 32, p.of)
      [] p.kind = "X25519"  -> Key("*ecdh.PublicKey", p.size, p.of)
      [] p.kind = "DSA"     -> Key("*dsa.PublicKey", p.size, p.of)

Failed      == [ok |-> FALSE]
Parsed(key) == [ok |-> TRUE, key |-> key]

x509ParsePKCS8PrivateKey(der) ==
    IF der.form = "PKCS8" /\ der.pair.kind # "DSA" THEN Parsed(PrivateKeyOf(der.pair)) ELSE Failed
x509ParsePKCS1PrivateKey(der) ==
    IF der.form = "PKCS1" THEN Parsed(PrivateKeyOf(der.pair)) ELSE Failed
x509ParseECPrivateKey(der) ==
    IF der.form = "SEC1" THEN Parsed(PrivateKeyOf(der.pair)) ELSE Failed
x509ParsePKIXPublicKey(der) ==
    IF der.form = "PKIX" THEN Parsed(PublicKeyOf(der.pair)) ELSE Failed
x509ParsePKCS1PublicKey(der) ==
    IF der.form = "PKCS1Public" THEN Parsed(PublicKeyOf(der.pair)) ELSE Failed

-----------------------------------------------------------------------------
(* keys.go                                                                 *)

\* Mutant: the smallest key that is allowed is refused.
refusesSmallest(key) == key.size > 2048

validateRSAPrivateKey(key) == key.size >= 2048
validateRSAPublicKey(key)  == key.size >= 2048

\* pem.Decode returns the first block; what is no PEM is taken as it is.
extractDERBytes(file) == file.blocks[1]

\* Mutant: an Ed25519 key is expected to be a pointer, as the other keys are.
ofPKCS8ByPointer(key) ==
    CASE key.form = "*rsa.PrivateKey" ->
           IF validateRSAPrivateKey(key) THEN Parsed(key) ELSE Failed
      [] key.form \in {"*ecdsa.PrivateKey", "*ed25519.PrivateKey"} -> Parsed(key)
      [] OTHER -> Failed

\* The switch on the type of a key read as PKCS#8 or PKIX.
OfPKCS8(key) ==
    CASE key.form = "*rsa.PrivateKey" ->
           IF validateRSAPrivateKey(key) THEN Parsed(key) ELSE Failed
      [] key.form \in {"*ecdsa.PrivateKey", "ed25519.PrivateKey"} -> Parsed(key)
      [] OTHER -> Failed

OfPKIX(key) ==
    CASE key.form = "*rsa.PublicKey" ->
           IF validateRSAPublicKey(key) THEN Parsed(key) ELSE Failed
      [] key.form \in {"*ecdsa.PublicKey", "ed25519.PublicKey"} -> Parsed(key)
      [] OTHER -> Failed

\* Mutant: PKCS#1 is not tried.
parseTwoFormats(keyData) ==
    LET der   == extractDERBytes(keyData)
        pkcs8 == x509ParsePKCS8PrivateKey(der)
    IN  IF keyData.blocks = <<>> THEN Failed
        ELSE IF pkcs8.ok THEN OfPKCS8(pkcs8.key)
        ELSE x509ParseECPrivateKey(der)

\* PKCS#8, then PKCS#1, then SEC1.  A key that is PKCS#8 but of another kind or
\* too small is refused at once.
ParsePrivateKey(keyData) ==
    LET der   == extractDERBytes(keyData)
        pkcs8 == x509ParsePKCS8PrivateKey(der)
        pkcs1 == x509ParsePKCS1PrivateKey(der)
    IN  IF keyData.blocks = <<>> THEN Failed
        ELSE IF pkcs8.ok THEN OfPKCS8(pkcs8.key)
        ELSE IF pkcs1.ok THEN IF validateRSAPrivateKey(pkcs1.key) THEN pkcs1 ELSE Failed
        ELSE x509ParseECPrivateKey(der)

ParsePublicKey(keyData) ==
    LET der   == extractDERBytes(keyData)
        pkix  == x509ParsePKIXPublicKey(der)
        pkcs1 == x509ParsePKCS1PublicKey(der)
    IN  IF keyData.blocks = <<>> THEN Failed
        ELSE IF pkix.ok THEN OfPKIX(pkix.key)
        ELSE IF pkcs1.ok /\ validateRSAPublicKey(pkcs1.key) THEN pkcs1
        ELSE Failed

\* The strict functions, each for one format.
ParsePKCS8PrivateKey(keyData) ==
    LET key == x509ParsePKCS8PrivateKey(extractDERBytes(keyData))
    IN  IF keyData.blocks # <<>> /\ key.ok THEN OfPKCS8(key.key) ELSE Failed

ParsePKCS1PrivateKey(keyData) ==
    LET key == x509ParsePKCS1PrivateKey(extractDERBytes(keyData))
    IN  IF keyData.blocks # <<>> /\ key.ok /\ validateRSAPrivateKey(key.key)
        THEN key ELSE Failed

ParseSEC1PrivateKey(keyData) ==
    IF keyData.blocks = <<>> THEN Failed
    ELSE x509ParseECPrivateKey(extractDERBytes(keyData))

ParsePKIXPublicKey(keyData) ==
    LET key == x509ParsePKIXPublicKey(extractDERBytes(keyData))
    IN  IF keyData.blocks # <<>> /\ key.ok THEN OfPKIX(key.key) ELSE Failed

ParsePKCS1PublicKey(keyData) ==
    LET key == x509ParsePKCS1PublicKey(extractDERBytes(keyData))
    IN  IF keyData.blocks # <<>> /\ key.ok /\ validateRSAPublicKey(key.key)
        THEN key ELSE Failed
=============================================================================
