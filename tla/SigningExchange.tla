--------------------------- MODULE SigningExchange ---------------------------
(***************************************************************************)
(* One side signs with any of the algorithms and any key it is given, the  *)
(* bytes of the signature may be damaged on the way, the other side        *)
(* verifies with any algorithm and key.  The library that computes and     *)
(* checks signatures is external: what it returns it has not returned for  *)
(* another base or key, and it accepts what it returned; of an ECDSA       *)
(* signature (r, s) it also accepts (r, N - s), with N the order of the    *)
(* curve.  Verify keeps no state, so one verification ends the exchange.   *)
(***************************************************************************)
EXTENDS Signing, FiniteSets

CONSTANTS SigningKeys, VerifyingKeys, \* the Go values callers pass as keys
          Bases,                      \* signature bases, EmptyBase among them
          p256N, p384N,               \* the orders of the curves
          MaxIssued                   \* bound: signatures made

\* The two halves of a key pair, and a secret on both sides, are of one size.  An
\* Ed25519 private key holds the public one.
ASSUME ExchangedKeysAssumption ==
    \A s \in SigningKeys, v \in VerifyingKeys :
      /\ s.state \in {"set", "nil", "zero"}
      /\ s.of = v.of /\ s.state = "set" /\ v.state = "set" =>
            /\ s.form = "[]byte" /\ v.form = "[]byte" => v.size = s.size
            /\ s.form = "*ecdsa.PrivateKey" /\ v.form = "*ecdsa.PublicKey" => v.size = s.size
            /\ s.form = "*rsa.PrivateKey" /\ v.form = "*rsa.PublicKey" => v.size = s.size
            /\ s.form = "ed25519.PrivateKey" /\ v.form = "ed25519.PublicKey" /\ s.size = 64
                 => v.size = 32

\* A number below the order fits in the bytes it is written in.
ASSUME OrderAssumption ==
    /\ p256N \in Nat /\ 1 < p256N /\ p256N <= Beyond(p256Len)
    /\ p384N \in Nat /\ 1 < p384N /\ p384N <= Beyond(p384Len)

VARIABLES
    issued,  \* what the library returned: [alg, of, base, value]
    made,    \* the bytes Sign returned: [alg, of, base, bytes]
    bytes,   \* the bytes on their way
    outcome, \* of the last Sign or Verify: "none", "error", "panic" or "ok"
    asked    \* what the last Verify was asked: [alg, key, base, bytes] or none

xvars == <<issued, made, bytes, outcome, asked>>

NotAsked == [alg |-> "none"]

XInit ==
    /\ issued = {} /\ made = {}
    /\ bytes = <<>>
    /\ outcome = "none"
    /\ asked = NotAsked

\* ECDSA returns a pair of numbers below the order of the curve; the others
\* return bytes.  The length of an RSA signature is the modulus'; it is two bytes
\* here.
LibraryValues(alg) ==
    CASE alg = "ecdsa-p256-sha256" -> (1..(p256N - 1)) \X (1..(p256N - 1))
      [] alg = "ecdsa-p384-sha384" -> (1..(p384N - 1)) \X (1..(p384N - 1))
      [] alg = "hmac-sha256"       -> [1..macLen -> Bytes]
      [] alg = "ed25519"           -> [1..edLen -> Bytes]
      [] OTHER                     -> [1..2 -> Bytes]

Deterministic == {"hmac-sha256", "ed25519", "rsa-v1_5-sha256"}

\* What the library accepts in place of v: Verify asks for no low s.
Forms(alg, v) ==
    CASE alg = "ecdsa-p256-sha256" -> {v, <<v[1], p256N - v[2]>>}
      [] alg = "ecdsa-p384-sha384" -> {v, <<v[1], p384N - v[2]>>}
      [] OTHER                     -> {v}

\* The bytes Sign makes of what the library returned, and the reverse.
Written(alg, v) ==
    CASE alg = "ecdsa-p256-sha256" -> encodeECDSASignature(v[1], v[2], p256Len)
      [] alg = "ecdsa-p384-sha384" -> encodeECDSASignature(v[1], v[2], p384Len)
      [] OTHER                     -> v

ReadBack(alg, sig) ==
    CASE alg = "ecdsa-p256-sha256" -> decodeECDSASignature(sig, p256Len)
      [] alg = "ecdsa-p384-sha384" -> decodeECDSASignature(sig, p384Len)
      [] OTHER                     -> sig

\* The library call of Sign.
Issue(alg, of, base) ==
    \E v \in LibraryValues(alg) :
      LET entry == [alg |-> alg, of |-> of, base |-> base, value |-> v]
      IN  /\ \A e \in issued :
               IF e.alg = alg /\ e.of = of /\ e.base = base
               THEN alg \in Deterministic => e.value = v
               ELSE e.alg = alg => v \notin Forms(alg, e.value)
          /\ issued' = issued \cup {entry}
          /\ made' = made \cup {[alg |-> alg, of |-> of, base |-> base, bytes |-> Written(alg, v)]}
          /\ bytes' = Written(alg, v)

Sign ==
    /\ Cardinality(issued) < MaxIssued /\ asked = NotAsked
    /\ \E alg \in Algorithms, base \in Bases, key \in SigningKeys :
         \/ /\ SignChecks(alg, base, key) = "call"
            /\ Issue(alg, key.of, base)
            /\ outcome' = "ok"
         \/ /\ SignChecks(alg, base, key) # "call"
            /\ outcome' = SignChecks(alg, base, key)
            /\ UNCHANGED <<issued, made, bytes>>
    /\ UNCHANGED asked

\* A byte is lost, added or changed between the two sides.
Damage ==
    /\ \E m \in made : bytes = m.bytes
    /\ \/ bytes' = SubSeq(bytes, 2, Len(bytes))
       \/ bytes' = <<0>> \o bytes
       \/ \E i \in 1..Len(bytes), b \in Bytes : bytes' = [bytes EXCEPT ![i] = b]
    /\ asked = NotAsked
    /\ outcome' = "none"
    /\ UNCHANGED <<issued, made, asked>>

\* The library call of Verify.
Accepts(alg, of, base, value) ==
    \E e \in issued : /\ e.alg = alg /\ e.of = of /\ e.base = base
                      /\ value \in Forms(alg, e.value)

Verify ==
  /\ asked = NotAsked
  /\ \E alg \in Algorithms, base \in Bases, key \in VerifyingKeys :
      /\ asked' = [alg |-> alg, key |-> key, base |-> base, bytes |-> bytes]
      /\ outcome' =
           IF VerifyChecks(alg, base, bytes, key) # "call"
           THEN VerifyChecks(alg, base, bytes, key)
           ELSE IF Accepts(alg, key.of, base, ReadBack(alg, bytes)) THEN "ok" ELSE "error"
      /\ UNCHANGED <<issued, made, bytes>>

XNext == Sign \/ Damage \/ Verify

XSpec == XInit /\ [][XNext]_xvars

-----------------------------------------------------------------------------
\* A verification key that fits the pair of the signing key and the algorithm.
Fits(key, alg, of) ==
    /\ key.of = of /\ key.state = "set"
    /\ \E k \in SigningKeys :
         /\ k.of = of /\ SignChecks(alg, "base", k) = "call"
         /\ key.form = CASE k.form = "[]byte"             -> "[]byte"
                         [] k.form = "ed25519.PrivateKey" -> "ed25519.PublicKey"
                         [] k.form = "*ecdsa.PrivateKey"  -> "*ecdsa.PublicKey"
                         [] k.form = "*rsa.PrivateKey"    -> "*rsa.PublicKey"

\* What Sign returned, Verify accepts: for each algorithm the checks of the two
\* agree on keys, curves and lengths, and r and s with leading zeros come back
\* from their fixed-length encoding.
SignedVerifies ==
    asked # NotAsked /\ Fits(asked.key, asked.alg, asked.key.of)
      /\ [alg |-> asked.alg, of |-> asked.key.of, base |-> asked.base, bytes |-> asked.bytes] \in made
    => outcome = "ok"

\* What Verify accepts for a base, key pair and algorithm is byte for byte what
\* Sign returned for them, or what Sign makes of the other form the library
\* accepts: no second encoding of a signature passes, shorter, longer or of
\* numbers beyond the order.
OneEncodingEach ==
    asked # NotAsked /\ outcome = "ok" =>
      \E e \in issued :
        /\ e.alg = asked.alg /\ e.of = asked.key.of /\ e.base = asked.base
        /\ \E v \in Forms(e.alg, e.value) : asked.bytes = Written(e.alg, v)

\* algorithm.go:69 "Return descriptive errors (never panic)": whatever key a
\* caller passes, Sign and Verify return.
NeverPanics == outcome # "panic"
=============================================================================
