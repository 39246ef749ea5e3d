-------------------------- MODULE MCContentDigest --------------------------
(* One algorithm of each length and of neither, and bodies of which one   *)
(* begins or ends another.                                                *)
EXTENDS ContentDigest

MCNames == <<"md5", "sha-256", "sha-512", "sha-512/256">>
MCBodies == { <<>>, <<"b">>, <<"a", "b">>, <<"b", "b">> }
MCRequired == { <<>>, <<"sha-256">>, <<"md5">>, <<"sha-512/256", "sha-256">>,
                <<"sha-512", "sha-512">> }
=============================================================================
