----------------------------- MODULE Simulation -----------------------------
(***************************************************************************)
(* The benchmark: runner.run() drives one policy through one World, and    *)
(* RailPulsePolicy drives the real engine, so the same payment is booked   *)
(* twice, once in the world and once in the engine's store.                *)
(*                                                                         *)
(* It is a sequential program; what is hard is that a wake of one payment  *)
(* runs a dispatch over all of them, that the two books are updated at     *)
(* different moments, and that each policy looks at its own pace.          *)
(* The verdict of the health monitor and every draw are free.              *)
(***************************************************************************)
EXTENDS CaseHandlers, World, Classifier, FiniteSets

CONSTANTS
    Payments,       \* payment ids: they break the ties of the heap
    Worlds,         \* the payments _build may make
    Policies,       \* policies to compare
    Normalisers,    \* what turns the issuer's prose into a code
    Labels,         \* labels a model may give
    Idle,           \* IDLE_POLL_MINUTES
    Soon            \* the five minutes of the immediate ladder

ASSUME SimulationAssumption ==
    /\ Payments \subseteq Nat /\ Payments # {} /\ IsFiniteSet(Payments)
    /\ Policies \subseteq { "do-nothing", "retry-3x-immediate",
                            "retry-3x-backoff", "static-dunning", "railpulse" }
    /\ Normalisers \subseteq { "passthrough", "none", "keyword", "model" }
    /\ Labels \subseteq CanonicalCodes
    /\ Idle \in Nat \ {0} /\ Soon \in Nat \ {0}

\* Every payment of the world is one that _build makes.
ASSUME WorldsAssumption ==
    \A l \in Worlds :
        /\ l.cause \in Causes /\ l.failed \in Nat
        /\ l \in Built(l.cause, { l.failed }, { l.clear - l.failed } \cap Nat)

VARIABLES
    policy, normaliser,
    latent,       \* World._latents
    wake,         \* the heap: the moment each payment is woken at
    pc,           \* where run() is
    now, current, \* the moment and the payment it woke
    decision,     \* what the policy wants
    outcome,      \* what came of it
    cases,        \* the engine's recovery_cases
    ingested,     \* RailPulsePolicy._ingested
    consentSent,  \* RailPulsePolicy._consent_sent
    cache,        \* the classifier's verdicts
    stats         \* model_calls and provider_errors

scenario == << policy, normaliser >>
engine == << cases, ingested, consentSent, cache, stats >>
vars == << scenario, latent, wake, pc, now, current, decision, outcome, engine >>

NoDecision == [ action |-> "none", after |-> 0 ]

Init ==
    /\ policy \in Policies
    /\ normaliser \in (IF policy = "railpulse" THEN Normalisers ELSE { "passthrough" })
    /\ latent \in [ Payments -> Worlds ]
    /\ wake = [ p \in Payments |-> latent[p].failed ]
    /\ pc = "pop"
    /\ now = 0 /\ current = 0
    /\ decision = NoDecision /\ outcome = "nothing"
    /\ cases = [ p \in Payments |-> AbsentCase ]
    /\ ingested = {} /\ consentSent = {}
    /\ cache = {} /\ stats = [ calls |-> 0, errors |-> 0 ]

-----------------------------------------------------------------------------
(* run() *)

Queued == { p \in Payments : wake[p] # Never }

Earlier(p, q) == wake[p] < wake[q] \/ (wake[p] = wake[q] /\ p <= q)

Pop ==
    /\ pc = "pop" /\ Queued # {}
    /\ LET p == CHOOSE p \in Queued : \A q \in Queued : Earlier(p, q)
       IN /\ wake' = [ wake EXCEPT ![p] = Never ]
          /\ IF wake[p] > Horizon \/ latent[p].resolved
             THEN UNCHANGED << pc, now, current >>
             ELSE /\ now' = wake[p] /\ current' = p
                  /\ pc' = IF policy # "railpulse" THEN "baseline"
                           ELSE IF p \in ingested THEN "decide" ELSE "feed"
    /\ UNCHANGED << scenario, latent, decision, outcome, engine >>

Act ==
    /\ pc = "act"
    /\ \E r \in Apply(latent[current], decision.action, now) :
          /\ latent' = [ latent EXCEPT ![current] = r.latent ]
          /\ outcome' = r.kind
    /\ pc' = IF policy = "railpulse" THEN "report" ELSE "push"
    /\ UNCHANGED << scenario, wake, now, current, decision, engine >>

NextWake == now + Max({ 1, decision.after })

Push ==
    /\ pc = "push"
    /\ wake' = IF decision.action = "abandon" \/ latent[current].resolved
                  \/ NextWake > Horizon
               THEN wake ELSE [ wake EXCEPT ![current] = NextWake ]
    /\ pc' = "pop"
    /\ decision' = NoDecision /\ outcome' = "nothing"
    /\ UNCHANGED << scenario, latent, now, current, engine >>

\* settle_to_horizon, payment by payment; the policy is not told.
Settle ==
    /\ pc = "pop" /\ Queued = {}
    /\ pc' = "settle"
    /\ current' = Min(Payments)
    /\ UNCHANGED << scenario, latent, wake, now, decision, outcome, engine >>

SettleOne ==
    LET left == { p \in Payments : p > current }
    IN /\ pc = "settle"
       /\ \E l \in SettledToHorizon(latent[current]) :
             latent' = [ latent EXCEPT ![current] = l ]
       /\ IF left = {} THEN pc' = "done" /\ UNCHANGED current
          ELSE current' = Min(left) /\ UNCHANGED pc
       /\ UNCHANGED << scenario, wake, now, decision, outcome, engine >>

-----------------------------------------------------------------------------
(* policies.py: the baselines see their own attempts and no more *)

Want(action, after) == [ action |-> action, after |-> after ]

BaselineDecision(l, t) ==
    CASE policy = "do-nothing" -> Want("wait", Day)
      [] policy # "do-nothing" /\ l.attempts >= 3 -> Want("abandon", 0)
      [] policy = "retry-3x-immediate" /\ l.attempts < 3 -> Want("retry", Soon)
      [] policy = "static-dunning" /\ l.attempts \in 1 .. 2
         /\ ~(l.pending # Never /\ l.pending > t) -> Want("request_consent", Day)
      [] OTHER -> Want("retry", Day)

Baseline ==
    /\ pc = "baseline"
    /\ decision' = BaselineDecision(latent[current], now)
    /\ pc' = "act"
    /\ UNCHANGED << scenario, latent, wake, now, current, outcome, engine >>

-----------------------------------------------------------------------------
(* RailPulsePolicy *)

Event(type, code, link) ==
    [ type |-> type, at |-> now, code |-> code, amount |-> TRUE,
      captured |-> FALSE, link |-> link ]

\* What the normaliser makes of this payment, with a model's answer.
Normalised(answer) ==
    LET l == latent[current]
    IN IF normaliser = "passthrough"
       THEN [ label |-> l.code, cache |-> cache, calls |-> 0, errors |-> 0 ]
       ELSE Normalise(normaliser, cache, l.code, l.cause, answer)

\* _feed_failure: a failure webhook, and after it the rest of decide(); or,
\* for a retry that failed, of on_outcome().
Feed ==
    /\ pc = "feed"
    /\ \E answer \in Answers(normaliser, Labels), degraded \in BOOLEAN :
          LET n == Normalised(answer)
          IN /\ cases' = [ cases EXCEPT ![current] =
                  Handled(@, Event("payment.failed", n.label, NoLink), degraded) ]
             /\ cache' = n.cache
             /\ stats' = [ calls |-> stats.calls + n.calls,
                           errors |-> stats.errors + n.errors ]
    /\ ingested' = ingested \cup { current }
    /\ pc' = IF decision.action = "retry" THEN "push" ELSE "decide"
    /\ UNCHANGED << scenario, latent, wake, now, current, decision, outcome,
                    consentSent >>

Due(c) == c.due # NoTime /\ c.due <= now

WakeAfter(c) ==
    IF c.due = NoTime THEN Idle ELSE Max({ 1, Min({ Idle, c.due - now + 1 }) })

\* dispatch_due_actions on one case: its timer, then its link; the gateway is
\* the fake one, which never fails.
Dispatched(c, cooled) ==
    LET p == CASE c.state = "cooldown" /\ Due(c) -> Committed(c, cooled)
               [] c.state = "retry_scheduled" /\ Due(c) ->
                    Committed(c, RetryOutcome(c, ContactBlocked(c, now)))
               [] OTHER -> c
    IN CASE p.state # "consent_required" -> p
         [] p.state = "consent_required" /\ ContactBlocked(p, now) # "none" ->
              Committed(p, Refusal(ContactBlocked(p, now)))
         [] OTHER -> LinkSent(p, 1, now)

\* What the adapter makes of the state the engine left its payment in.
Terminal == { "stopped", "manual_review", "recovered_natural", "recovered_by_link" }

\* Mutant: the link is presented on every look.
BadDecisionFor(c) ==
    CASE c.state \in Terminal -> Want("abandon", 0)
      [] c.state = "link_sent" -> Want("request_consent", Idle)
      [] OTHER -> Want("wait", WakeAfter(c))

DecisionFor(c) ==
    CASE c.state \in Terminal -> Want("abandon", 0)
      [] c.state = "link_sent" /\ current \notin consentSent ->
           Want("request_consent", Idle)
      [] c.state = "link_sent" /\ current \in consentSent -> Want("wait", Idle)
      [] OTHER -> Want("wait", WakeAfter(c))

\* decide(): a due retry is made; otherwise the engine advances every case
\* that is due, and the adapter does what its state asks for.
DecideRetry ==
    LET c == cases[current]
    IN /\ pc = "decide"
       /\ c.state = "retry_scheduled" /\ Due(c)
       /\ decision' = Want("retry", WakeAfter(c))
       /\ pc' = "act"
       /\ UNCHANGED << scenario, latent, wake, now, current, outcome, engine >>

DecideDispatch ==
    /\ pc = "decide"
    /\ ~(cases[current].state = "retry_scheduled" /\ Due(cases[current]))
    /\ \E cooled \in [ Payments -> CooldownOutcomes(now) ] :
          cases' = [ p \in Payments |-> Dispatched(cases[p], cooled[p]) ]
    /\ decision' = DecisionFor(cases'[current])
    /\ consentSent' = IF decision'.action = "request_consent"
                      THEN consentSent \cup { current } ELSE consentSent
    /\ pc' = "act"
    /\ UNCHANGED << scenario, latent, wake, now, current, outcome, ingested,
                    cache, stats >>

\* Mutant: a link id of the adapter's own making.
BadPaidEvent ==
    IF current \in consentSent THEN Event("payment_link.paid", "none", 2)
    ELSE Event("payment.captured", "none", NoLink)

\* The webhook a recovery is reported with.
PaidEvent ==
    IF current \in consentSent
    THEN Event("payment_link.paid", "none", cases[current].link)
    ELSE Event("payment.captured", "none", NoLink)

\* The adapter writes an opt-out straight into the row.
OptedOut(c) ==
    IF IsFinal(c) \/ ~CanTransition(c.state, "stopped") THEN c
    ELSE [ c EXCEPT !.state = "stopped", !.reason = "customer_opted_out",
                    !.due = NoTime ]

\* Mutant: a failed retry is not news.
BadReport ==
    /\ pc = "report"
    /\ cases' = [ cases EXCEPT ![current] =
         CASE outcome = "recovered" -> Handled(@, PaidEvent, FALSE)
           [] outcome = "opted_out" -> OptedOut(@)
           [] OTHER -> @ ]
    /\ pc' = "push"
    /\ UNCHANGED << scenario, latent, wake, now, current, decision, outcome,
                    ingested, consentSent, cache, stats >>

\* on_outcome()
Report ==
    /\ pc = "report"
    /\ cases' = [ cases EXCEPT ![current] =
         CASE outcome = "recovered" -> Handled(@, PaidEvent, FALSE)
           [] outcome = "opted_out" -> OptedOut(@)
           [] OTHER -> @ ]
    /\ pc' = IF outcome = "attempt_failed" THEN "feed" ELSE "push"
    /\ UNCHANGED << scenario, latent, wake, now, current, decision, outcome,
                    ingested, consentSent, cache, stats >>

-----------------------------------------------------------------------------
Done == pc = "done" /\ UNCHANGED vars

Step == \/ Pop \/ Act \/ Push \/ Settle \/ SettleOne \/ Baseline
        \/ Feed \/ DecideRetry \/ DecideDispatch \/ Report

Next == Step \/ Done

Spec == Init /\ [][Next]_vars

-----------------------------------------------------------------------------
(* Properties *)

\* "Every policy is credited with the same elapsed time regardless of how
\* often it looked": a customer who never paid was given the whole time from
\* the failure to the horizon to do so, if nothing blocked them in the end,
\* whatever the policy's cadence and whether or not it gave up.  (Giving up at
\* the very horizon has no tail left to roll, and forfeits what was not yet
\* drawn.)
CadenceIndependent ==
    pc = "done" =>
        \A p \in Payments : LET l == latent[p]
            IN l.recovered = Never /\ ~l.optedOut /\ l.closed # Horizon =>
                 l.rolled = (IF BlockCleared(l, Horizon) /\ l.failed < Horizon
                             THEN Horizon - l.failed ELSE 0)

\* No policy, engine included, recovers what the world makes impossible: a
\* payment comes back only after its block cleared, a dead or revoked
\* instrument only through a link, a risk block never.
NoImpossibleRecovery ==
    \A p \in Payments : LET l == latent[p]
        IN l.recovered # Never =>
             /\ l.clear = Never => l.cause \notin { "insufficient_funds", "issuer_outage" }
             /\ l.cause \in { "insufficient_funds", "issuer_outage" } =>
                  l.clear <= l.recovered
             /\ l.cause \in { "instrument_dead", "mandate_cancelled" } =>
                  l.contacts > 0 /\ l.consentOk
             /\ l.cause # "risk_blocked"

BookedRecovered(p) == cases[p].state \in { "recovered_natural", "recovered_by_link" }

\* The scorecard is the world's and the revenue figure the engine's.  Between
\* two wakes they agree: the engine claims no recovery the world does not
\* have, and has each one unless a wrong label made it stop the case.
EngineBooksRecoveries ==
    policy = "railpulse" /\ pc = "pop" =>
        \A p \in Payments :
            /\ BookedRecovered(p) => latent[p].recovered # Never
            /\ latent[p].recovered # Never =>
                 \/ BookedRecovered(p)
                 \/ cases[p].state = "stopped" /\ normaliser # "passthrough"

\* Both books count the same attempts: the first failure and every retry that
\* did not go through, within the engine's limit.
AttemptsAgree ==
    policy = "railpulse" /\ pc = "pop" =>
        \A p \in ingested : LET l == latent[p]
                                byRetry == l.recovered # Never /\ ~l.natural
                                           /\ l.contacts = 0
            IN /\ cases[p].attempts = 1 + l.attempts - (IF byRetry THEN 1 ELSE 0)
               /\ cases[p].attempts <= MaxRecoveryAttempts

\* Every contact the customer feels is one the engine charged to the contact
\* budget; and an opt-out of the world stops the case in the engine.
NoUnbookedContact ==
    policy = "railpulse" =>
        \A p \in Payments :
            /\ latent[p].contacts <= cases[p].contacts
            /\ latent[p].optedOut /\ pc = "pop" => cases[p].state = "stopped"

\* A failure that nobody could name is never retried and never bothers the
\* customer; it goes to a person.
UnlabelledIsLeftAlone ==
    policy = "railpulse" =>
        \A p \in Payments :
            cases[p].code \notin HardFailures \cup RiskFailures \cup TransientFailures =>
                latent[p].attempts = 0 /\ latent[p].contacts = 0

\* "Caching is per-message": however many payments carry a message, the model
\* gives one verdict on it, and an outage of the model is not one.
OneVerdictPerMessage ==
    stats.calls - stats.errors
      <= Cardinality({ << latent[p].code, latent[p].cause >> : p \in ingested })

=============================================================================
