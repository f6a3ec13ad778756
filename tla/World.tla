------------------------------- MODULE World --------------------------------
(***************************************************************************)
(* The simulated recovery world (app/sim/world.py): what is true of a      *)
(* failed payment and what an action does to it.  Every random draw is a   *)
(* choice: an operator returns the set of what may come out.  A moment is  *)
(* a number; one issuer, one method (no policy ever switches it) and the   *)
(* money are left out.                                                     *)
(***************************************************************************)
EXTENDS Integers, FiniteSetsExt

CONSTANTS
    Horizon,            \* EPOCH + horizon_days
    Day,                \* one day: the step of the tail, the life of a link
    TechnicalClear,     \* technical_clear_minutes
    ContactTolerance    \* contact_tolerance

ASSUME WorldAssumption ==
    /\ Horizon \in Nat \ {0} /\ Day \in Nat \ {0}
    /\ TechnicalClear \in Nat /\ ContactTolerance \in Nat

Never == -1    \* a moment that is None

Causes == { "insufficient_funds", "issuer_outage", "do_not_honour",
            "technical_decline", "instrument_dead", "mandate_cancelled",
            "risk_blocked" }

\* CODE_FOR_CAUSE; "none" is the code the acquirer did not send, "UNLISTED"
\* any that the engine has no table for.
CodeForCause ==
    [ c \in Causes |->
        CASE c = "insufficient_funds" -> { "INSUFFICIENT_FUNDS", "none", "UNLISTED" }
          [] c = "issuer_outage" ->
               { "ISSUER_UNAVAILABLE", "BANK_DOWN", "none", "UNLISTED" }
          [] c = "do_not_honour" -> { "none", "UNLISTED" }
          [] c = "technical_decline" -> { "GATEWAY_ERROR", "none", "UNLISTED" }
          [] c = "instrument_dead" -> { "CARD_EXPIRED", "INVALID_VPA", "none" }
          [] c = "mandate_cancelled" -> { "MANDATE_CANCELLED", "none" }
          [] c = "risk_blocked" -> { "SUSPECTED_FRAUD", "UNLISTED", "none" } ]

-----------------------------------------------------------------------------
(* _Latent.  clear is solvent_from, outage_until or technical_clear_at;     *)
(* the issuer's message is named by the cause it comes from.  rolled and    *)
(* closed are history: the elapsed time over which the customer's own       *)
(* payment was drawn, and the moment a policy gave up.                      *)

ClearTimes(cause, failed, delays) ==
    CASE cause = "insufficient_funds" -> { failed + d : d \in delays } \cup { Never }
      [] cause = "issuer_outage" -> { failed + d : d \in delays \ {0} }
      [] cause = "technical_decline" -> { failed + TechnicalClear }
      [] OTHER -> { Never }

\* _consent_truth
ConsentTruth(cause) ==
    CASE cause \in { "instrument_dead", "mandate_cancelled", "do_not_honour" } -> BOOLEAN
      [] cause = "risk_blocked" -> { FALSE }
      [] OTHER -> { TRUE }

\* _build: the payments of a cause that failed at one of these moments.
Built(cause, moments, delays) ==
    UNION { { [ cause |-> cause, failed |-> f, clear |-> clear, sameOk |-> same,
                consentOk |-> consent, code |-> code,
                contacts |-> 0, attempts |-> 0, optedOut |-> FALSE,
                resolved |-> FALSE, recovered |-> Never, natural |-> FALSE,
                pending |-> Never, last |-> Never, rolled |-> 0,
                closed |-> Never ] :
              clear \in ClearTimes(cause, f, delays),
              same \in (IF cause = "do_not_honour" THEN BOOLEAN ELSE { FALSE }),
              consent \in ConsentTruth(cause), code \in CodeForCause[cause] } :
            f \in moments }

Cleared(l, t) == l.clear # Never /\ t >= l.clear

\* Mutant: a customer who is never solvent counts as solvent.
BadBlockCleared(l, t) ==
    l.cause \in { "insufficient_funds", "issuer_outage" } => t >= l.clear

BlockCleared(l, t) ==
    l.cause \in { "insufficient_funds", "issuer_outage" } => Cleared(l, t)

\* The hidden recovery function: would a retry go through now?
WouldSucceed(l, t) ==
    CASE l.cause \in { "insufficient_funds", "issuer_outage", "technical_decline" } ->
           Cleared(l, t)
      [] l.cause = "do_not_honour" -> l.sameOk
      [] OTHER -> FALSE

-----------------------------------------------------------------------------
(* The customer pays unprompted *)

Recovered(l, t, natural) ==
    [ l EXCEPT !.resolved = TRUE, !.recovered = t, !.natural = natural ]

LastLook(l) == IF l.last = Never THEN l.failed ELSE l.last

\* The draw covers the time since the last one.
Looked(l, t) == [ l EXCEPT !.last = t, !.rolled = @ + (t - LastLook(l)) ]

SelfServes(l) ==
    l.cause \notin { "instrument_dead", "mandate_cancelled", "risk_blocked" }

\* Mutant: time spent blocked is used up.
BadNatural(l, t) ==
    IF l.optedOut \/ ~BlockCleared(l, t) THEN { [ l EXCEPT !.last = t ] }
    ELSE { Looked(l, t) }
         \cup (IF SelfServes(l) /\ t > LastLook(l)
               THEN { Recovered(Looked(l, t), t, TRUE) } ELSE {})

\* _natural_recovery: no time elapsed, no chance.
Natural(l, t) ==
    IF l.optedOut \/ ~BlockCleared(l, t) THEN { l }
    ELSE { Looked(l, t) }
         \cup (IF SelfServes(l) /\ t > LastLook(l)
               THEN { Recovered(Looked(l, t), t, TRUE) } ELSE {})

\* _natural_recovery_over: looks a day apart and one at the end; the customer
\* pays at one of them, or at none.
NaturalOver(l, start, end) ==
    LET looks == { m \in (start + 1) .. end : /\ (m - start) % Day = 0 \/ m = end
                                              /\ BlockCleared(l, m) }
    IN IF l.optedOut \/ looks = {} THEN { l }
       ELSE { Looked(l, Max(looks)) }
            \cup { Recovered(Looked(l, m), m, TRUE) : m \in { x \in looks : SelfServes(l) } }

\* settle_to_horizon, for one payment.
SettledToHorizon(l) ==
    IF l.resolved THEN { l } ELSE NaturalOver(l, LastLook(l), Horizon)

-----------------------------------------------------------------------------
(* apply() *)

Result(l, kind) == [ latent |-> l, kind |-> kind ]

KindOf(l, otherwise) == IF l.recovered # Never THEN "recovered" ELSE otherwise

\* _settle_pending_consent
SettlePending(l, t) ==
    CASE l.pending = Never -> Result(l, "nothing")
      [] l.pending # Never /\ l.pending < t ->
           Result([ l EXCEPT !.pending = Never ], "consent_ignored")
      [] l.pending >= t /\ l.consentOk /\ BlockCleared(l, t) ->
           Result([ Recovered(l, t, FALSE) EXCEPT !.pending = Never ], "recovered")
      [] OTHER -> Result(l, "nothing")

Waited(l, t) ==
    { IF n.resolved THEN Result(n, "recovered") ELSE SettlePending(n, t) :
        n \in Natural(l, t) }

\* Giving up: the tail is rolled at once and the payment is closed.
Abandoned(l, t) ==
    { Result([ n EXCEPT !.resolved = TRUE, !.closed = t ], KindOf(n, "abandoned")) :
        n \in NaturalOver(l, t, Horizon) }

Retried(l, t) ==
    LET tried == [ l EXCEPT !.attempts = @ + 1 ]
    IN IF WouldSucceed(l, t) THEN { Result(Recovered(tried, t, FALSE), "recovered") }
       ELSE { Result(tried, "attempt_failed") }

\* Asked past the tolerance, a customer may opt out for good; otherwise they
\* ignore the message or engage.
Asked(l, t) ==
    LET asked == [ l EXCEPT !.contacts = @ + 1 ]
    IN { Result(asked, "consent_ignored"),
         SettlePending([ asked EXCEPT !.pending = t + Day ], t) }
       \cup (IF asked.contacts > ContactTolerance
             THEN { Result([ asked EXCEPT !.optedOut = TRUE, !.resolved = TRUE ],
                           "opted_out") } ELSE {})

Apply(l, action, t) ==
    CASE action = "wait" -> Waited(l, t)
      [] action = "abandon" -> Abandoned(l, t)
      [] action = "retry" -> Retried(l, t)
      [] action = "request_consent" -> Asked(l, t)

=============================================================================
