----------------------------- MODULE CaseModel -----------------------------
(***************************************************************************)
(* The recovery case of app/models.py and the pure policy of               *)
(* app/service.py: states, event families, the transition table, the       *)
(* contact budget, failure classification and decide().  No state here;    *)
(* the modules that keep cases keep one such record per invoice.           *)
(***************************************************************************)
EXTENDS Integers

CONSTANTS
    Cooldown,             \* settings.cooldown
    ReleaseJitter,        \* settings.release_jitter
    RetryEscalation,      \* settings.retry_escalation_after
    ContactCooldown,      \* settings.contact_cooldown
    ContactWindow,        \* models.CONTACT_WINDOW
    MaxContacts,          \* models.DEFAULT_MAX_CONTACTS_7D
    MaxRecoveryAttempts   \* settings.max_recovery_attempts

ASSUME DurationsAssumption ==
    /\ Cooldown \in Nat /\ ReleaseJitter \in Nat /\ RetryEscalation \in Nat
    /\ ContactCooldown \in Nat /\ ContactWindow \in Nat

ASSUME LimitsAssumption == MaxContacts \in Nat /\ MaxRecoveryAttempts \in Nat

NoTime == -1     \* a datetime that is None
Time == Nat
NoLink == 0      \* payment_link_id is None; links of one invoice are 1, 2, ...

-----------------------------------------------------------------------------
(* RecoveryCaseState *)

States == { "open", "classified", "cooldown", "retry_scheduled",
            "consent_required", "link_sent", "authorized_pending_capture",
            "recovered_natural", "recovered_by_link", "stopped",
            "manual_review", "recovery_reversed" }

FinalStates == { "recovered_natural", "recovered_by_link", "stopped",
                 "recovery_reversed" }

TimedStates == { "cooldown", "retry_scheduled" }

ParkedStates == { "stopped", "manual_review" }

AlreadyActioned == { "consent_required", "link_sent",
                     "authorized_pending_capture", "manual_review" }

\* Mutant: a capture that reaches a case under review has no edge.
BadReviewEdges ==
    { "recovery_reversed", "authorized_pending_capture", "recovered_by_link",
      "stopped", "cooldown", "retry_scheduled", "consent_required" }

\* The edges out of manual review, the door back to the engine included.
ReviewEdges ==
    { "recovery_reversed", "authorized_pending_capture", "recovered_natural",
      "recovered_by_link", "stopped", "cooldown", "retry_scheduled",
      "consent_required" }

\* Every other open state may be reversed, captured, stopped or parked.
AllowedTransitions ==
    LET always == { "recovery_reversed", "recovered_natural", "stopped",
                    "manual_review" }
        held   == always \cup { "authorized_pending_capture" }
    IN [ s \in States |->
         CASE s = "open" -> held \cup { "classified", "cooldown",
                                        "retry_scheduled", "consent_required" }
           [] s = "classified" -> held \cup { "cooldown", "retry_scheduled",
                                              "consent_required" }
           [] s = "cooldown" -> held \cup { "retry_scheduled", "consent_required" }
           [] s = "retry_scheduled" -> held \cup { "cooldown", "consent_required" }
           [] s = "consent_required" -> held \cup { "link_sent" }
           [] s = "link_sent" -> held \cup { "recovered_by_link" }
           [] s = "authorized_pending_capture" -> always
           [] s = "manual_review" -> ReviewEdges
           [] s \in { "recovered_natural", "recovered_by_link" } ->
                { "recovery_reversed" }
           [] s \in { "stopped", "recovery_reversed" } -> {} ]

CanTransition(from, to) == to = from \/ to \in AllowedTransitions[from]

-----------------------------------------------------------------------------
(* EventType and its families *)

FailureEvents == { "payment.failed", "subscription.pending",
                   "subscription.halted" }
SuccessEvents == { "payment.authorized", "payment.captured", "order.paid" }
LinkEvents == { "payment_link.paid", "payment_link.partially_paid",
                "payment_link.cancelled", "payment_link.expired" }
ReversalEvents == { "payment.dispute.created", "refund.created",
                    "refund.processed" }
EventTypes == FailureEvents \cup SuccessEvents \cup LinkEvents
              \cup ReversalEvents

-----------------------------------------------------------------------------
(* classify_failure: "none" is an event with no failure code, and any code  *)
(* outside the three tables is unknown.                                     *)

HardFailures == { "CARD_EXPIRED", "MANDATE_CANCELLED", "ACCOUNT_CLOSED",
                  "INVALID_VPA", "DO_NOT_HONOUR" }
RiskFailures == { "SUSPECTED_FRAUD", "RISK_REJECTED", "CHARGEBACK_OPEN" }
TransientFailures == { "GATEWAY_ERROR", "BANK_DOWN", "NETWORK_TIMEOUT",
                       "ISSUER_UNAVAILABLE", "INSUFFICIENT_FUNDS" }
FailureCodes == HardFailures \cup RiskFailures \cup TransientFailures
                \cup { "UNLISTED" }

FailureClasses == { "transient", "customer_action", "risk", "unknown" }

\* Mutant: a code in no table is retried.
BadClassifyFailure(code) ==
    CASE code \in HardFailures -> "customer_action"
      [] code \in RiskFailures -> "risk"
      [] OTHER -> "transient"

ClassifyFailure(code) ==
    CASE code \in HardFailures -> "customer_action"
      [] code \in RiskFailures -> "risk"
      [] code \in TransientFailures -> "transient"
      [] OTHER -> "unknown"

-----------------------------------------------------------------------------
(* RecoveryCase.  "absent" is an invoice with no row yet.  The amount is    *)
(* kept only as "is it positive", the question the code asks of it; ids,    *)
(* urls, issuer and rail are dropped, and version is kept by the readers    *)
(* (a reader's snapshot knows whether the row was saved since).             *)

Reasons == { "none", "customer_opted_out", "risk_policy_stop",
             "retry_attempts_exhausted", "unclassified_failure",
             "contact_budget_exhausted", "contact_cooldown_active",
             "payment_link_create_unavailable", "payment_link_create_rejected",
             "original_payment_captured", "late_authorisation_pending_capture",
             "late_link_event_requires_reconciliation",
             "duplicate_collection_requires_reconciliation",
             "payment_link_captured",
             "partial_recovery_requires_reconciliation",
             "recovery_link_cancelled", "recovery_link_expired",
             "unexpected_link_event", "payment_link_cancel_failed",
             "link_cancel_returned_non_cancellable_status" }

LinkStatuses == { "none", "issued", "created", "paid", "partially_paid",
                  "cancelled", "expired" }
CancellableLinkStatuses == { "issued", "created" }

NewCase == [ state |-> "open", code |-> "none", class |-> "none",
             attempts |-> 0, amount |-> FALSE,
             link |-> NoLink, lstat |-> "none", preview |-> FALSE,
             due |-> NoTime, reason |-> "none",
             recon |-> FALSE, reversed |-> FALSE,
             contacts |-> 0, last |-> NoTime, optout |-> FALSE ]

AbsentCase == [ NewCase EXCEPT !.state = "absent" ]

CaseRecords ==
    [ state : States \cup { "absent" }, code : FailureCodes \cup { "none" },
      class : FailureClasses \cup { "none" }, attempts : Nat, amount : BOOLEAN,
      link : Nat, lstat : LinkStatuses, preview : BOOLEAN,
      due : Time \cup { NoTime }, reason : Reasons,
      recon : BOOLEAN, reversed : BOOLEAN,
      contacts : Nat, last : Time \cup { NoTime }, optout : BOOLEAN ]

IsFinal(c) == c.state \in FinalStates

\* Mutant: the status the fake gateway gives its links is missing.
BadHasCancellableLink(c) == c.link # NoLink /\ c.lstat = "created"

HasCancellableLink(c) ==
    c.link # NoLink /\ c.lstat \in CancellableLinkStatuses

-----------------------------------------------------------------------------
(* CustomerAttentionBudget *)

EffectiveContacts(c, t) ==
    IF c.last # NoTime /\ t - c.last >= ContactWindow THEN 0 ELSE c.contacts

\* can_contact: "none" when contact is allowed, else the reason it is not.
ContactBlocked(c, t) ==
    IF c.optout THEN "customer_opted_out"
    ELSE IF EffectiveContacts(c, t) >= MaxContacts
         THEN "contact_budget_exhausted"
    ELSE IF c.last # NoTime /\ t - c.last < ContactCooldown
         THEN "contact_cooldown_active"
    ELSE "none"

RecordContact(c, t) ==
    [ c EXCEPT !.contacts = EffectiveContacts(c, t) + 1, !.last = t ]

-----------------------------------------------------------------------------
(* decide(): the policy.  degraded is the health monitor's verdict.         *)

Decision(state, reason, due) ==
    [ state |-> state, reason |-> reason, due |-> due ]

Decisions == [ state : States, reason : Reasons, due : Time \cup { NoTime } ]

Decide(c, t, degraded) ==
    IF c.optout THEN Decision("stopped", "customer_opted_out", NoTime)
    ELSE IF c.class = "risk" THEN Decision("stopped", "risk_policy_stop", NoTime)
    ELSE IF c.attempts >= MaxRecoveryAttempts
         THEN Decision("manual_review", "retry_attempts_exhausted", NoTime)
    ELSE IF c.class = "unknown"
         THEN Decision("manual_review", "unclassified_failure", NoTime)
    ELSE IF c.class = "customer_action"
         THEN Decision("consent_required", "none", NoTime)
    ELSE IF degraded THEN Decision("cooldown", "none", t + Cooldown)
    ELSE Decision("retry_scheduled", "none", t + RetryEscalation)

=============================================================================
