------------------------ MODULE MCSignatureLifetime ------------------------
(* Two ticks a second; limits at, below and above one second.             *)
EXTENDS SignatureLifetime

CONSTANT MaxClock  \* bound: ticks

MCPolicies ==
    { o \in [now: {NoInstant, 3}, requireCreated: BOOLEAN, requireExpires: BOOLEAN,
             notNewerThan: {-1, 0, 1, 2}, notOlderThan: {-1, 0, 1, 3},
             rejectExpired: BOOLEAN, expiresNotBeforeCreated: BOOLEAN] :
        o.requireCreated = o.requireExpires }

MCSignerOptions ==
    [created: {NoInstant, -1, 3}, expires: {NoInstant, 0, 3, 5}, disabled: BOOLEAN]

ClockBound == clock <= MaxClock
=============================================================================
