----------------------------- MODULE MCSigning -----------------------------
(* Keys, as Go values and in files, on both sides of every check.          *)
EXTENDS SigningExchange, KeyExchange

\* Key pairs for the files.
Pair(kind, of, size) == [kind |-> kind, of |-> of, size |-> size]
MCKeyPairs == { Pair("RSA", "r1", 2048), Pair("RSA", "r2", 2047),
                Pair("ECDSA", "p1", "P-256"), Pair("ECDSA", "p2", "P-384"),
                Pair("ECDSA", "p3", "P-521"), Pair("Ed25519", "e1", 32),
                Pair("X25519", "x1", 32), Pair("DSA", "d1", 2048) }

\* One good key pair of each kind and the keys just outside every check.
K(form, state, size, of) == [form |-> form, state |-> state, size |-> size, of |-> of]

MCSigningKeys ==
    { K("[]byte", "set", 16, "s1"), K("[]byte", "set", 15, "s2"), K("[]byte", "nil", 0, "none"),
      K("ed25519.PrivateKey", "set", 64, "e1"), K("ed25519.PrivateKey", "set", 32, "e2"),
      K("*ecdsa.PrivateKey", "set", "P-256", "p1"), K("*ecdsa.PrivateKey", "set", "P-384", "p2"),
      K("*ecdsa.PrivateKey", "nil", 0, "none"),
      K("*rsa.PrivateKey", "set", 2048, "r1"), K("*rsa.PrivateKey", "set", 2047, "r2") }

MCVerifyingKeys ==
    { K("[]byte", "set", 16, "s1"), K("[]byte", "set", 15, "s2"),
      K("ed25519.PublicKey", "set", 32, "e1"), K("ed25519.PublicKey", "set", 31, "e2"),
      K("*ecdsa.PublicKey", "set", "P-256", "p1"), K("*ecdsa.PublicKey", "set", "P-384", "p2"),
      K("*ecdsa.PublicKey", "nil", 0, "none"),
      K("*rsa.PublicKey", "set", 2048, "r1"), K("*rsa.PublicKey", "set", 2047, "r2") }

\* A typed nil among the RSA keys, as a failed lookup returns it.
MCKeysWithNil == MCSigningKeys \cup { K("*rsa.PrivateKey", "nil", 0, "none") }

MCBases == {"", "base"}

\* Either two sides have keys and exchange signatures, or they read key files.
NoFiles == \A file \in {privateFile, publicFile} : file.blocks = <<>>

MCInit == XInit /\ KInit
MCNext == \/ KInit /\ NoFiles /\ XNext /\ UNCHANGED kvars
          \/ XInit /\ KNext /\ UNCHANGED xvars
MCSpec == MCInit /\ [][MCNext]_<<xvars, kvars>>
=============================================================================
