-------------------------- MODULE ParamsValidation --------------------------
(***************************************************************************)
(* pkg/parser/params_validation.go: the checks a verifier makes on the     *)
(* created and expires parameters of a signature.                          *)
(*                                                                         *)
(* Instants and durations are integers, counted in ticks; the parameters   *)
(* are whole seconds, TicksPerSecond ticks each, so that the second a      *)
(* signer drops and the fraction a verifier's clock has are both in the    *)
(* model.  Go's time.Time spans every instant the parser can produce       *)
(* (15 digits of seconds), so that no addition overflows.                  *)
(***************************************************************************)
EXTENDS Integers

CONSTANTS TicksPerSecond, \* the resolution of the clocks
          NoInstant       \* Go's zero time.Time: no instant given

ASSUME ClockAssumption == /\ TicksPerSecond \in Nat \ {0}
                          /\ NoInstant \notin Int

Instants == Int \cup {NoInstant}

\* time.Time.Unix() and time.Unix(s, 0).
Unix(t) == t \div TicksPerSecond
FromUnix(s) == s * TicksPerSecond

\* A parameter is NoInstant when absent, otherwise a number of seconds.
Timestamps == [created: Instants, expires: Instants]

Options == [now: Instants,
            requireCreated: BOOLEAN, requireExpires: BOOLEAN,
            notNewerThan: Int, notOlderThan: Int,
            rejectExpired: BOOLEAN, expiresNotBeforeCreated: BOOLEAN]

\* The time the checks use: the pinned Now of the options if there is one, else
\* the clock (which the code reads only if one of the checks needs it).
resolveValidationNow(opts, clock) == IF opts.now # NoInstant THEN opts.now ELSE clock

\* Mutants of validateCreatedParam: the limits alone do not require the parameter.
createdOptional(ts, opts, now) ==
    IF ts.created = NoInstant
    THEN IF opts.requireCreated THEN "created missing" ELSE "ok"
    ELSE IF opts.notNewerThan > 0 /\ FromUnix(ts.created) > now + opts.notNewerThan
    THEN "in the future"
    ELSE IF opts.notOlderThan > 0 /\ FromUnix(ts.created) + opts.notOlderThan < now
    THEN "too old"
    ELSE "ok"

\* The tolerance for clocks that run ahead is forgotten.
createdWithoutSkew(ts, opts, now) ==
    IF ts.created = NoInstant
    THEN IF opts.requireCreated \/ opts.notNewerThan > 0 \/ opts.notOlderThan > 0
         THEN "created missing" ELSE "ok"
    ELSE IF opts.notNewerThan > 0 /\ FromUnix(ts.created) > now
    THEN "in the future"
    ELSE IF opts.notOlderThan > 0 /\ FromUnix(ts.created) + opts.notOlderThan < now
    THEN "too old"
    ELSE "ok"

\* The age is not checked.
createdOfAnyAge(ts, opts, now) ==
    IF ts.created = NoInstant
    THEN IF opts.requireCreated \/ opts.notNewerThan > 0 \/ opts.notOlderThan > 0
         THEN "created missing" ELSE "ok"
    ELSE IF opts.notNewerThan > 0 /\ FromUnix(ts.created) > now + opts.notNewerThan
    THEN "in the future"
    ELSE "ok"

\* The outcomes, one per error.
validateCreatedParam(ts, opts, now) ==
    IF ts.created = NoInstant
    THEN IF opts.requireCreated \/ opts.notNewerThan > 0 \/ opts.notOlderThan > 0
         THEN "created missing" ELSE "ok"
    ELSE IF opts.notNewerThan > 0 /\ FromUnix(ts.created) > now + opts.notNewerThan
    THEN "in the future"
    ELSE IF opts.notOlderThan > 0 /\ FromUnix(ts.created) + opts.notOlderThan < now
    THEN "too old"
    ELSE "ok"

validateExpiresParam(ts, opts, now) ==
    IF ts.expires = NoInstant
    THEN IF opts.requireExpires THEN "expires missing" ELSE "ok"
    ELSE IF opts.rejectExpired /\ now > FromUnix(ts.expires)
    THEN "expired"
    ELSE IF /\ opts.expiresNotBeforeCreated
            /\ ts.created # NoInstant
            /\ FromUnix(ts.expires) < FromUnix(ts.created)
    THEN "expires before created"
    ELSE "ok"

ValidateSignatureParams(ts, opts, clock) ==
    LET now     == resolveValidationNow(opts, clock)
        created == validateCreatedParam(ts, opts, now)
    IN  IF opts.notNewerThan < 0 \/ opts.notOlderThan < 0 THEN "bad options"
        ELSE IF created # "ok" THEN created
        ELSE validateExpiresParam(ts, opts, now)
=============================================================================
