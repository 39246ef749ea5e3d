------------------------ MODULE MCAlgorithmRegistry ------------------------
(* A small instance of AlgorithmRegistry: one built-in identifier, one     *)
(* custom identifier that callers race to register, and the empty one.     *)
EXTENDS AlgorithmRegistry

MCIds == {"", "hmac-sha256", "custom"}
MCEmptyID == ""
MCImpls == {"hmac", "other"}
MCNoAlg == "none"
MCBuiltin == [id \in MCIds |-> IF id = "hmac-sha256" THEN "hmac" ELSE "none"]

\* One of the implementations is registered, since the answers of a race tell
\* who was first, and the custom identifier is the one that is looked up, since
\* once it is registered its lookup is that of a built-in one.  Nothing is fair
\* about starting a call, so that liveness does not depend on this constraint.
Telling(c) ==
    \/ c = Idle
    \/ c.op = "register" /\ c.impl = "other"
    \/ c.op = "get" /\ c.id # "hmac-sha256"
    \/ c.op = "supported"
TellingCalls == \A p \in Procs : Telling(call'[p])
=============================================================================
