-------------------------- MODULE SignatureLifetime --------------------------
(***************************************************************************)
(* The life of the signatures of one Signer against the clock of one       *)
(* Verifier.  NewSigner (httpsig/signer.go) fixes created and expires when *)
(* the Signer is constructed, as whole seconds, and every later signature  *)
(* carries the same values; the verifier checks them at any later time     *)
(* with a clock of finer resolution.                                       *)
(***************************************************************************)
EXTENDS ParamsValidation

CONSTANTS PolicySet,  \* the verifier's options
          SignerOptionSet \* [created, expires: an instant or NoInstant; disabled: BOOLEAN]

ASSUME LifetimeAssumption ==
    /\ PolicySet \subseteq Options
    /\ SignerOptionSet \subseteq [created: Instants, expires: Instants, disabled: BOOLEAN]

VARIABLES
    clock,    \* the current instant
    policy,   \* the verifier's options
    born,     \* the instants NewSigner was given, before they became seconds
    stamps,   \* the parameters every signature of the signer carries
    checked,  \* the instant of the last validation, NoInstant before one
    verdict   \* its outcome

lvars == <<clock, policy, born, stamps, checked, verdict>>

NotBorn == [created |-> NoInstant, expires |-> NoInstant]

LInit ==
    /\ clock = 0
    /\ policy \in PolicySet
    /\ born = NotBorn
    /\ stamps = NotBorn
    /\ checked = NoInstant
    /\ verdict = "none"

Seconds(t) == IF t = NoInstant THEN NoInstant ELSE Unix(t)

\* Mutants of NewSigner: the parameters follow the clock after construction.
RestampSigner ==
    /\ born' = [created |-> clock, expires |-> born.expires]
    /\ stamps' = [created |-> Unix(clock), expires |-> stamps.expires]
    /\ UNCHANGED <<clock, policy, checked, verdict>>

\* NewSigner: created is the option's instant, else the clock, unless disabled.
NewSigner ==
    /\ verdict = "none" /\ stamps = NotBorn
    /\ \E o \in SignerOptionSet :
         born' = [created |-> IF o.disabled THEN NoInstant
                              ELSE IF o.created = NoInstant THEN clock
                              ELSE o.created,
                  expires |-> o.expires]
    /\ stamps' = [created |-> Seconds(born'.created), expires |-> Seconds(born'.expires)]
    /\ UNCHANGED <<clock, policy, checked, verdict>>

Tick ==
    /\ clock' = clock + 1
    /\ UNCHANGED <<policy, born, stamps, checked, verdict>>

Validate ==
    /\ checked' = clock
    /\ verdict' = ValidateSignatureParams(stamps, policy, clock)
    /\ UNCHANGED <<clock, policy, born, stamps>>

LNext == NewSigner \/ Tick \/ Validate

LSpec == LInit /\ [][LNext]_lvars

-----------------------------------------------------------------------------
\* Every variable has its type.
LTypeOK ==
    /\ clock \in Nat
    /\ policy \in Options
    /\ born \in Timestamps
    /\ stamps \in Timestamps
    /\ checked \in Nat \cup {NoInstant}
    /\ verdict \in {"none", "ok", "bad options", "created missing", "in the future",
                    "too old", "expires missing", "expired", "expires before created"}

Reference == resolveValidationNow(policy, checked)

\* validateCreatedParam and validateExpiresParam: what is accepted is, measured
\* by the instants the signer was given and not by the seconds it announced, no
\* older than the limit, not expired, and less than a second further in the
\* future than allowed.
AcceptedIsFresh ==
    verdict = "ok" =>
      /\ policy.notOlderThan > 0 =>
           born.created # NoInstant /\ Reference - born.created <= policy.notOlderThan
      /\ policy.notNewerThan > 0 =>
           born.created # NoInstant
             /\ born.created - Reference < policy.notNewerThan + TicksPerSecond
      /\ policy.rejectExpired /\ born.expires # NoInstant => Reference <= born.expires

\* The price of whole seconds: a signature is refused as too old, in the future
\* or expired at most one second before the exact instants would have it refused.
RefusedForCause ==
    /\ verdict = "too old" =>
         Reference - born.created > policy.notOlderThan - TicksPerSecond
    /\ verdict = "in the future" => born.created - Reference > policy.notNewerThan
    /\ verdict = "expired" => Reference > born.expires - TicksPerSecond

Stale(v) == v \in {"too old", "expired"}

\* A signer's signatures do not come back to life: once the verifier has found
\* one too old or expired it accepts none of that signer again, however long it
\* runs, because created and expires were fixed by NewSigner.
StaleForEver == [][Stale(verdict) /\ verdict' # verdict => Stale(verdict')]_lvars

-----------------------------------------------------------------------------
(* The inductive invariant behind the theorems in SignatureInputProof:     *)
(* the parameters are the signer's instants in seconds, and the verdict is *)
(* what validation says of them at the instant it was made.                *)
Stamped == stamps = [created |-> Seconds(born.created), expires |-> Seconds(born.expires)]

Judged == \/ verdict = "none"
          \/ /\ checked \in Nat /\ checked <= clock
             /\ verdict = ValidateSignatureParams(stamps, policy, checked)

LInv == LTypeOK /\ Stamped /\ Judged
=============================================================================
