------------------------------- MODULE Signing -------------------------------
(***************************************************************************)
(* pkg/signing: the six signature algorithms, that is, the checks each one *)
(* makes before it calls the cryptographic library and the form in which   *)
(* it writes and reads signatures.                                         *)
(*                                                                         *)
(* A key is a Go value of the interface type any:                          *)
(*   [form, state, size, of]                                               *)
(* form its dynamic type; state "set", "nil" (a typed nil) or "zero" (a    *)
(* pointer to a struct without its curve or modulus); size the bytes of a  *)
(* secret or of an Ed25519 key, the bits of an RSA modulus or the name of  *)
(* the curve; of names the secret or the key pair the key belongs to.      *)
(*                                                                         *)
(* Sign and Verify either return an error, or panic, or come to the call   *)
(* of the library ("call"), whose arithmetic is not modelled: who issued a *)
(* signature decides whether it is valid.                                  *)
(***************************************************************************)
EXTENDS Integers, Sequences

CONSTANTS EmptyBase,  \* the signature base of no bytes
          ByteValues, \* 256
          macLen,     \* bytes of an HMAC-SHA256 value: 32
          edLen,      \* ed25519.SignatureSize: 64
          p256Len,    \* ecdsaP256SignatureLen / 2: 32
          p384Len     \* ecdsaP384SignatureLen / 2: 48

ASSUME SigningAssumption ==
    /\ ByteValues \in Nat /\ ByteValues >= 2
    /\ {macLen, edLen, p256Len, p384Len} \subseteq Nat \ {0}

Bytes == 0..(ByteValues - 1)

Algorithms == {"hmac-sha256", "ed25519", "ecdsa-p256-sha256", "ecdsa-p384-sha384",
               "rsa-pss-sha512", "rsa-v1_5-sha256"}

-----------------------------------------------------------------------------
(* ecdsa.go: a signature is r || s, each as componentLen bytes, big-endian. *)

\* The first number that n bytes do not hold.
Beyond(n) ==
    LET power[i \in 0..n] == IF i = 0 THEN 1 ELSE ByteValues * power[i - 1]
    IN  power[n]

\* big.Int.FillBytes: byte after byte from the last one, left[k] what is left of
\* the number after k of them.
FillBytes(x, componentLen) ==
    LET left[k \in 0..componentLen] ==
          IF k = 0 THEN x ELSE left[k - 1] \div ByteValues
    IN  [i \in 1..componentLen |-> left[componentLen - i] % ByteValues]

SetBytes(bytes) ==
    LET value[i \in 0..Len(bytes)] ==
          IF i = 0 THEN 0 ELSE value[i - 1] * ByteValues + bytes[i]
    IN  value[Len(bytes)]

\* Mutant: leading zero bytes are left out, as big.Int.Bytes does.
encodeMinimal(r, s, componentLen) ==
    LET Width(x) == CHOOSE w \in 1..componentLen :
                      /\ x < Beyond(w)
                      /\ w > 1 => x >= Beyond(w - 1)
    IN  FillBytes(r, Width(r)) \o FillBytes(s, Width(s))

encodeECDSASignature(r, s, componentLen) ==
    FillBytes(r, componentLen) \o FillBytes(s, componentLen)

\* The error.
NoPair == <<>>

\* Mutant: any signature is cut into halves.
decodeHalves(sig, componentLen) ==
    <<SetBytes(SubSeq(sig, 1, Len(sig) \div 2)),
      SetBytes(SubSeq(sig, Len(sig) \div 2 + 1, Len(sig)))>>

decodeECDSASignature(sig, componentLen) ==
    IF Len(sig) # 2 * componentLen THEN NoPair
    ELSE <<SetBytes(SubSeq(sig, 1, componentLen)),
           SetBytes(SubSeq(sig, componentLen + 1, Len(sig)))>>

-----------------------------------------------------------------------------
(* The checks on keys; RSA does not look for nil before it reads N.        *)

ECDSAKey(key, form, curve) ==
    CASE key.form # form \/ key.state = "nil" -> "error"
      [] key.form = form /\ key.state = "zero" -> "panic"
      [] OTHER -> IF key.size = curve THEN "call" ELSE "error"

RSAKey(key, form) ==
    CASE key.form # form -> "error"
      [] key.form = form /\ key.state # "set" -> "panic"
      [] OTHER -> IF key.size >= 2048 THEN "call" ELSE "error"

hmacSHA256Sign(base, key) ==
    IF base # EmptyBase /\ key.form = "[]byte" /\ key.state = "set" /\ key.size >= 16
    THEN "call" ELSE "error"

hmacSHA256Verify(base, sig, key) ==
    IF /\ base # EmptyBase /\ Len(sig) = macLen
       /\ key.form = "[]byte" /\ key.state = "set" /\ key.size >= 16
    THEN "call" ELSE "error"

ed25519Sign(base, key) ==
    IF base # EmptyBase /\ key.form = "ed25519.PrivateKey" /\ key.state = "set" /\ key.size = 64
    THEN "call" ELSE "error"

ed25519Verify(base, sig, key) ==
    IF /\ base # EmptyBase /\ Len(sig) = edLen
       /\ key.form = "ed25519.PublicKey" /\ key.state = "set" /\ key.size = 32
    THEN "call" ELSE "error"

ecdsaP256Sign(base, key) ==
    IF base = EmptyBase THEN "error" ELSE ECDSAKey(key, "*ecdsa.PrivateKey", "P-256")

ecdsaP384Sign(base, key) ==
    IF base = EmptyBase THEN "error" ELSE ECDSAKey(key, "*ecdsa.PrivateKey", "P-384")

\* The length of the signature is checked by decodeECDSASignature, after the key.
ecdsaP256Verify(base, sig, key) ==
    LET checked == ECDSAKey(key, "*ecdsa.PublicKey", "P-256")
    IN  IF base = EmptyBase \/ sig = <<>> THEN "error"
        ELSE IF checked = "call" /\ decodeECDSASignature(sig, p256Len) = NoPair THEN "error"
        ELSE checked

ecdsaP384Verify(base, sig, key) ==
    LET checked == ECDSAKey(key, "*ecdsa.PublicKey", "P-384")
    IN  IF base = EmptyBase \/ sig = <<>> THEN "error"
        ELSE IF checked = "call" /\ decodeECDSASignature(sig, p384Len) = NoPair THEN "error"
        ELSE checked

rsaPSSSign(base, key) ==
    IF base = EmptyBase THEN "error" ELSE RSAKey(key, "*rsa.PrivateKey")

rsaPSSVerify(base, sig, key) ==
    IF base = EmptyBase \/ sig = <<>> THEN "error" ELSE RSAKey(key, "*rsa.PublicKey")

rsaPKCS1v15Sign(base, key) ==
    IF base = EmptyBase THEN "error" ELSE RSAKey(key, "*rsa.PrivateKey")

rsaPKCS1v15Verify(base, sig, key) ==
    IF base = EmptyBase \/ sig = <<>> THEN "error" ELSE RSAKey(key, "*rsa.PublicKey")

-----------------------------------------------------------------------------
(* Algorithm.Sign and Algorithm.Verify, dispatched on the ID.              *)

SignChecks(alg, base, key) ==
    CASE alg = "hmac-sha256"       -> hmacSHA256Sign(base, key)
      [] alg = "ed25519"           -> ed25519Sign(base, key)
      [] alg = "ecdsa-p256-sha256" -> ecdsaP256Sign(base, key)
      [] alg = "ecdsa-p384-sha384" -> ecdsaP384Sign(base, key)
      [] alg = "rsa-pss-sha512"    -> rsaPSSSign(base, key)
      [] alg = "rsa-v1_5-sha256"   -> rsaPKCS1v15Sign(base, key)

VerifyChecks(alg, base, sig, key) ==
    CASE alg = "hmac-sha256"       -> hmacSHA256Verify(base, sig, key)
      [] alg = "ed25519"           -> ed25519Verify(base, sig, key)
      [] alg = "ecdsa-p256-sha256" -> ecdsaP256Verify(base, sig, key)
      [] alg = "ecdsa-p384-sha384" -> ecdsaP384Verify(base, sig, key)
      [] alg = "rsa-pss-sha512"    -> rsaPSSVerify(base, sig, key)
      [] alg = "rsa-v1_5-sha256"   -> rsaPKCS1v15Verify(base, sig, key)
=============================================================================
