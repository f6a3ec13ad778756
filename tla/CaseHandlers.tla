---------------------------- MODULE CaseHandlers ----------------------------
(***************************************************************************)
(* What the handlers of RecoveryService do to a case row, as functions of  *)
(* the row: the webhook handlers, the decisions of a dispatch tick, the    *)
(* outcome of a cancel and the operator's reopen.  The concurrent service  *)
(* (Recovery) and the offline benchmark (Simulation) run the same code.    *)
(***************************************************************************)
EXTENDS CaseModel

-----------------------------------------------------------------------------
(* The webhook handlers *)

HandleFailure(old, e, degraded) ==
    LET c == IF old.state = "absent"
             THEN [ NewCase EXCEPT !.amount = e.amount ] ELSE old
        code == IF e.code # "none" THEN e.code ELSE c.code
        seen == [ c EXCEPT !.code = code, !.class = ClassifyFailure(code),
                           !.amount = @ \/ e.amount, !.attempts = @ + 1 ]
        d == Decide(seen, e.at, degraded)
    IN IF IsFinal(c) THEN c
       ELSE IF c.state \in AlreadyActioned
            THEN [ c EXCEPT !.attempts = @ + 1, !.amount = @ \/ e.amount ]
       ELSE IF ~CanTransition(c.state, d.state) THEN seen
       ELSE [ seen EXCEPT !.state = d.state, !.due = d.due,
                !.reason = IF d.state \in ParkedStates THEN d.reason ELSE "none" ]

\* Mutant: an authorisation counts as collected money.
BadIsCapture(e) == e.type \in SuccessEvents

IsCapture(e) == e.captured \/ e.type \in { "payment.captured", "order.paid" }

\* scheduled: _schedule_link_cancel claimed the cancel row.
HandleSuccess(c, e, scheduled) ==
    [ c EXCEPT
        !.state = IF IsCapture(e) THEN "recovered_natural"
                  ELSE "authorized_pending_capture",
        !.reason = IF IsCapture(e) THEN "original_payment_captured"
                   ELSE "late_authorisation_pending_capture",
        !.due = NoTime,
        !.preview = @ /\ ~scheduled ]

\* Mutant: the event's name is stored as the link's status.
BadLinkStatusOf(e) == e.type

LinkStatusOf(e) ==
    CASE e.type = "payment_link.paid" -> "paid"
      [] e.type = "payment_link.partially_paid" -> "partially_paid"
      [] e.type = "payment_link.cancelled" -> "cancelled"
      [] OTHER -> "expired"

\* The state a link event asks for, "none" when the case is already held.
LinkTarget(c, e) ==
    LET held == c.state = "authorized_pending_capture"
    IN CASE e.type = "payment_link.paid" /\ ~held ->
              Decision("recovered_by_link", "payment_link_captured", NoTime)
         [] e.type = "payment_link.paid" /\ held ->
              Decision("manual_review",
                       "duplicate_collection_requires_reconciliation", NoTime)
         [] e.type = "payment_link.partially_paid" ->
              Decision("manual_review",
                       "partial_recovery_requires_reconciliation", NoTime)
         [] e.type \in { "payment_link.cancelled", "payment_link.expired" }
            /\ held -> Decision("none", "none", NoTime)
         [] e.type = "payment_link.cancelled" /\ ~held ->
              Decision("manual_review", "recovery_link_cancelled", NoTime)
         [] OTHER -> Decision("manual_review", "recovery_link_expired", NoTime)

HandleLink(c, e) ==
    LET marked == [ c EXCEPT !.preview = FALSE, !.lstat = LinkStatusOf(e) ]
        d == LinkTarget(c, e)
    IN IF IsFinal(c)
       THEN [ c EXCEPT !.recon = TRUE,
                       !.reason = "late_link_event_requires_reconciliation" ]
       ELSE IF d.state = "none" THEN marked
       ELSE IF CanTransition(c.state, d.state)
            THEN [ marked EXCEPT !.state = d.state, !.reason = d.reason,
                                 !.due = NoTime ]
       ELSE [ marked EXCEPT !.recon = TRUE, !.reason = "unexpected_link_event" ]

HandleReversal(c) ==
    [ c EXCEPT !.optout = TRUE, !.reversed = TRUE, !.recon = TRUE,
               !.state = IF CanTransition(@, "recovery_reversed")
                         THEN "recovery_reversed" ELSE @ ]

\* The row after the event, for one of the two verdicts of the monitor.
Handled(c, e, degraded) ==
    CASE e.type \in FailureEvents -> HandleFailure(c, e, degraded)
      [] e.type \in SuccessEvents ->
           IF c.state = "absent" \/ IsFinal(c) THEN c
           ELSE HandleSuccess(c, e, HasCancellableLink(c))
      [] e.type \in LinkEvents ->
           IF c.state = "absent" \/ (c.link # NoLink /\ e.link # NoLink /\ e.link # c.link)
           THEN c ELSE HandleLink(c, e)
      [] OTHER ->
           IF c.state \in { "absent", "recovery_reversed" } THEN c
           ELSE HandleReversal(c)

\* transition_to raises: only the success handler does not ask first.
Forbidden(c, e) ==
    /\ e.type \in SuccessEvents /\ c.state # "absent" /\ ~IsFinal(c)
    /\ ~CanTransition(c.state, HandleSuccess(c, e, FALSE).state)

-----------------------------------------------------------------------------
(* The dispatch tick *)

\* _contact_refusal_state
Refusal(blocked) ==
    IF blocked \in { "contact_budget_exhausted", "contact_cooldown_active" }
    THEN Decision("manual_review", blocked, NoTime)
    ELSE Decision("stopped", blocked, NoTime)

\* The outcomes of a cooldown that ran out: still degraded, no release slot
\* left on this tick, or released at an offset inside the jitter window.
CooldownOutcomes(t) ==
    { Decision("cooldown", "none", t + Cooldown),
      Decision("cooldown", "none", t + ReleaseJitter) }
    \cup { Decision("retry_scheduled", "none", t + RetryEscalation + o) :
             o \in 0 .. (IF ReleaseJitter = 0 THEN 0 ELSE ReleaseJitter - 1) }

RetryOutcome(c, blocked) ==
    IF c.attempts >= MaxRecoveryAttempts
    THEN Decision("manual_review", "retry_attempts_exhausted", NoTime)
    ELSE IF blocked # "none" THEN Refusal(blocked)
    ELSE Decision("consent_required", "none", NoTime)

\* Mutants: the old deadline is kept; only "stopped" records its reason.
BadCommitted(c, d) ==
    [ c EXCEPT !.state = d.state,
               !.reason = IF d.state \in ParkedStates THEN d.reason ELSE @ ]

BadCommittedReason(c, d) ==
    [ c EXCEPT !.state = d.state, !.due = d.due,
               !.reason = IF d.state = "stopped" THEN d.reason ELSE @ ]

\* _commit_state: nothing happens when the row was saved since it was read.
Committed(c, d) ==
    [ c EXCEPT !.state = d.state, !.due = d.due,
               !.reason = IF d.state \in ParkedStates THEN d.reason ELSE @ ]

LinkSent(c, n, t) ==
    [ RecordContact(c, t) EXCEPT !.link = n, !.lstat = "issued",
                                 !.state = "link_sent", !.due = NoTime ]

-----------------------------------------------------------------------------
(* Cancels and the operator *)

\* Mutant: any answer of the provider heals the flag.
BadCancelRecorded(c, status) ==
    [ c EXCEPT
        !.lstat = status, !.preview = FALSE,
        !.recon = IF c.reason = "payment_link_cancel_failed" THEN FALSE
                  ELSE @ \/ status # "cancelled",
        !.reason = IF c.reason = "payment_link_cancel_failed" THEN "none" ELSE @ ]

CancelRecorded(c, status) ==
    [ c EXCEPT
        !.lstat = status, !.preview = FALSE,
        !.recon = CASE status # "cancelled" -> TRUE
                    [] status = "cancelled"
                       /\ c.reason = "payment_link_cancel_failed" -> FALSE
                    [] OTHER -> @,
        !.reason = CASE status # "cancelled" ->
                          "link_cancel_returned_non_cancellable_status"
                     [] status = "cancelled"
                        /\ c.reason = "payment_link_cancel_failed" -> "none"
                     [] OTHER -> @ ]

Reopened(c, class, t, degraded) ==
    LET r == [ c EXCEPT !.class = IF class # "none" THEN class ELSE @,
                        !.attempts = 0 ]
        d == Decide(r, t, degraded)
    IN [ r EXCEPT !.state = IF CanTransition(@, d.state) THEN d.state ELSE @,
                  !.reason = IF d.state \in ParkedStates THEN d.reason ELSE "none",
                  !.due = d.due ]

=============================================================================
