-------------------------------- MODULE Api ---------------------------------
(***************************************************************************)
(* The HTTP boundary of the service (app/api.py): the provider delivers a  *)
(* webhook until it gets an answer it takes as final, requests run on      *)
(* threads of their own, a transaction may fail, the process may die       *)
(* between the commit and the answer, and a restarted server may come up   *)
(* without its webhook secret.  Beside it, the operator's outreach preview *)
(* with the model that drafts it.                                          *)
(*                                                                         *)
(* What the engine does to a row is CaseHandlers; the races of its threads *)
(* and the revocation of links are Recovery.                               *)
(***************************************************************************)
EXTENDS CaseHandlers, Webhook, Copilot

CONSTANTS
    Webhooks,     \* X-Razorpay-Event-Id of every webhook
    Hook,         \* the request that carries it: [ invoice, body, flaws ]
    Requests,     \* threads of the server
    NoHook,
    Unsigned,     \* RAILPULSE_ALLOW_UNSIGNED_WEBHOOKS
    Providers,    \* drafting providers a preview may be asked of
    Received,     \* the server's clock
    MaxFaults     \* bound: failed transactions, lost answers, crashes

ASSUME ApiAssumption ==
    /\ NoHook \notin Webhooks
    /\ \A w \in Webhooks : Hook[w].flaws \subseteq Flaws
    /\ Unsigned \in BOOLEAN /\ Received \in Time /\ MaxFaults \in Nat

\* What json leaves in the fields the engine branches on.
ASSUME BodiesAssumption ==
    \A w \in Webhooks : LET b == Hook[w].body
        IN /\ b.code \in FailureCodes \cup { Missing }
           /\ b.captured \in BOOLEAN
           /\ b.created_at \in { Missing, Junk } \/ b.created_at \in Int

VARIABLES
    cases,      \* recovery_cases, by logical key
    claims,     \* processed_events
    observed,   \* health_observations: how often each webhook was counted
    window,     \* the health monitor's memory of the same
    canonical,  \* is the case's payment_link_url a canonical one
    request,    \* what each thread is doing
    delivery,   \* what the provider knows of each webhook
    secret,     \* RAZORPAY_WEBHOOK_SECRET is set
    faults

db == << cases, claims, observed, canonical >>
vars == << db, window, request, delivery, secret, faults >>

\* What the route makes of each webhook, with and without the secret.
StatusOf == [ w \in Webhooks |-> [ s \in BOOLEAN |->
                RouteStatus(Hook[w].body, Hook[w].flaws, s, Unsigned) ] ]

EventOf == [ w \in Webhooks |-> Normalized(Hook[w].body, Received) ]

Keys == { LogicalKey(Hook[w].body) : w \in Webhooks } \ { Missing }

NoDraft == [ preview |-> InvalidDraft("nobody"), kind |-> "none" ]

IdleRequest == [ pc |-> "idle", hook |-> NoHook, key |-> Missing, status |-> 0,
                 provider |-> "none", draft |-> NoDraft ]

Init ==
    /\ cases = [ k \in Keys |-> AbsentCase ]
    /\ claims = {}
    /\ observed = [ w \in Webhooks |-> 0 ]
    /\ window = [ w \in Webhooks |-> 0 ]
    /\ canonical = [ k \in Keys |-> TRUE ]
    /\ request = [ r \in Requests |-> IdleRequest ]
    /\ delivery = [ w \in Webhooks |-> "pending" ]
    /\ secret \in BOOLEAN
    /\ faults = 0

-----------------------------------------------------------------------------
(* The webhook route *)

\* The provider posts a webhook it has no final answer for, perhaps while an
\* earlier attempt is still being served.
Deliver(r, w) ==
    /\ request[r].pc = "idle" /\ delivery[w] = "pending"
    /\ \E status \in { StatusOf[w][secret] } :
          request' = [ request EXCEPT ![r] = [ IdleRequest EXCEPT
            !.pc = IF status = 200 THEN "ingest" ELSE "answer",
            !.hook = w, !.status = status ] ]
    /\ UNCHANGED << db, window, delivery, secret, faults >>

\* The handlers of charge outcomes feed the health monitor first.
Counted(w) == EventOf[w].type \in FailureEvents \cup SuccessEvents

Plus(counts, w) ==
    IF Counted(w) THEN [ counts EXCEPT ![w] = @ + 1 ] ELSE counts

Ending(r, status) ==
    request' = [ request EXCEPT ![r] = [ IdleRequest EXCEPT
                   !.pc = "answer", !.hook = request[r].hook, !.status = status ] ]

\* Mutant: the claim is committed before the handler runs.
BadIngestFails(r) ==
    LET w == request[r].hook
    IN /\ request[r].pc = "ingest" /\ faults < MaxFaults
       /\ w \notin claims
       /\ claims' = claims \cup { w }
       /\ window' \in { window, Plus(window, w) }
       /\ faults' = faults + 1
       /\ Ending(r, 500)
       /\ UNCHANGED << cases, observed, canonical, delivery, secret >>

\* Mutant: the observation is written outside the transaction.
BadIngestFailsObserved(r) ==
    LET w == request[r].hook
    IN /\ request[r].pc = "ingest" /\ faults < MaxFaults
       /\ w \notin claims
       /\ window' = Plus(window, w) /\ observed' = Plus(observed, w)
       /\ faults' = faults + 1
       /\ Ending(r, 500)
       /\ UNCHANGED << cases, claims, canonical, delivery, secret >>

\* The transaction fails and rolls back (a busy or full database), before or
\* after the monitor was told; its memory is not rolled back.
IngestFails(r) ==
    LET w == request[r].hook
    IN /\ request[r].pc = "ingest" /\ faults < MaxFaults
       /\ window' \in { window } \cup (IF w \in claims THEN {} ELSE { Plus(window, w) })
       /\ faults' = faults + 1
       /\ Ending(r, 500)
       /\ UNCHANGED << db, delivery, secret >>

\* ingest(): claim and apply in one transaction; a claimed event is answered
\* and nothing else.  A transition the table forbids rolls back, and the
\* route acknowledges it all the same.
Ingest(r) ==
    LET w == request[r].hook
        e == EventOf[w]
        c == cases[e.key]
    IN /\ request[r].pc = "ingest"
       /\ \/ /\ w \in claims
             /\ UNCHANGED << cases, claims, observed, window >>
          \/ /\ w \notin claims /\ Forbidden(c, e)
             /\ window' = Plus(window, w)
             /\ UNCHANGED << cases, claims, observed >>
          \/ /\ w \notin claims /\ ~Forbidden(c, e)
             /\ claims' = claims \cup { w }
             /\ observed' = Plus(observed, w)
             /\ window' = Plus(window, w)
             /\ \E degraded \in BOOLEAN :
                   cases' = [ cases EXCEPT ![e.key] = Handled(c, e, degraded) ]
       /\ Ending(r, 200)
       /\ UNCHANGED << canonical, delivery, secret, faults >>

\* What the provider makes of an answer (external): 2xx is an
\* acknowledgement, 400 and 413 a permanent rejection; anything else it
\* tries again later.
AfterAnswer(status) ==
    CASE status = 200 -> "acked" [] status \in { 400, 413 } -> "dropped"
      [] OTHER -> "pending"

Answer(r) ==
    LET q == request[r]
    IN /\ q.pc = "answer"
       /\ delivery' = IF q.hook # NoHook /\ delivery[q.hook] = "pending"
                      THEN [ delivery EXCEPT ![q.hook] = AfterAnswer(q.status) ]
                      ELSE delivery
       /\ request' = [ request EXCEPT ![r] = IdleRequest ]
       /\ UNCHANGED << db, window, secret, faults >>

\* The provider hung up before the answer came.
LoseAnswer(r) ==
    /\ request[r].pc = "answer" /\ faults < MaxFaults
    /\ request' = [ request EXCEPT ![r] = IdleRequest ]
    /\ faults' = faults + 1
    /\ UNCHANGED << db, window, delivery, secret >>

\* The server restarts: requests in flight are gone, the monitor is restored
\* from the table, and the environment may or may not hold the secret.
Restart ==
    /\ faults < MaxFaults
    /\ request' = [ r \in Requests |-> IdleRequest ]
    /\ window' = observed
    /\ secret' \in BOOLEAN
    /\ faults' = faults + 1
    /\ UNCHANGED << db, delivery >>

\* The operator reads the log, sets the secret and deploys again.
Configure ==
    /\ ~secret
    /\ request' = [ r \in Requests |-> IdleRequest ]
    /\ window' = observed
    /\ secret' = TRUE
    /\ UNCHANGED << db, delivery, faults >>

-----------------------------------------------------------------------------
(* Links and previews *)

\* A dispatch sends the link; its URL is what the gateway answered.
SendLink(k) ==
    /\ cases[k].state = "consent_required"
    /\ cases' = [ cases EXCEPT ![k] = LinkSent(@, 1, Received) ]
    /\ canonical' \in { [ canonical EXCEPT ![k] = b ] : b \in BOOLEAN }
    /\ UNCHANGED << claims, observed, window, request, delivery, secret, faults >>

\* create_outreach_preview reads the case; the provider is asked outside any
\* transaction.
PreviewStart(r, k, provider) ==
    /\ request[r].pc = "idle"
    /\ request' = [ request EXCEPT ![r] =
         IF cases[k].state = "link_sent" /\ HasCancellableLink(cases[k])
         THEN [ IdleRequest EXCEPT !.pc = "draft", !.key = k, !.provider = provider ]
         ELSE [ IdleRequest EXCEPT !.pc = "answer",
                  !.status = IF cases[k].state = "absent" THEN 404 ELSE 409 ] ]
    /\ UNCHANGED << db, window, delivery, secret, faults >>

Drafted(q, outcome) ==
    [ preview |-> GeneratePreview(q.provider, outcome, canonical[q.key]),
      kind |-> outcome.kind ]

\* The draft is there; only a case that still waits for its customer keeps
\* it, and then the caller is shown it too.
PreviewSave(r) ==
    LET q == request[r]
        live == cases[q.key].state = "link_sent"
    IN /\ q.pc = "draft"
       /\ \/ /\ live
             /\ cases' = [ cases EXCEPT ![q.key].preview = TRUE ]
             /\ \E outcome \in ProviderOutcomes(q.provider) :
                   request' = [ request EXCEPT ![r] = [ q EXCEPT !.pc = "answer",
                                  !.status = 200, !.draft = Drafted(q, outcome) ] ]
          \/ /\ ~live
             /\ Ending(r, 409)
             /\ UNCHANGED cases
       /\ UNCHANGED << claims, observed, window, canonical, delivery, secret, faults >>

-----------------------------------------------------------------------------
Serve(r) == Answer(r) \/ LoseAnswer(r) \/ PreviewSave(r) \/ IngestFails(r) \/ Ingest(r)

Next ==
    \/ \E r \in Requests : Serve(r)
    \/ \E r \in Requests, w \in Webhooks : Deliver(r, w)
    \/ \E r \in Requests, k \in Keys, p \in Providers : PreviewStart(r, k, p)
    \/ \E k \in Keys : SendLink(k)
    \/ Restart \/ Configure

\* Threads finish what they serve, the provider keeps posting while anything
\* is unacknowledged, and a missing secret is noticed and set.
Fairness ==
    /\ \A r \in Requests : WF_vars(Serve(r))
    /\ SF_vars(\E r \in Requests, w \in Webhooks : Deliver(r, w))
    /\ WF_vars(Configure)

Spec == Init /\ [][Next]_vars /\ Fairness

-----------------------------------------------------------------------------
(* Properties *)

\* Every variable has its type.
TypeOK ==
    /\ cases \in [ Keys -> CaseRecords ]
    /\ claims \subseteq Webhooks
    /\ observed \in [ Webhooks -> Nat ] /\ window \in [ Webhooks -> Nat ]
    /\ canonical \in [ Keys -> BOOLEAN ]
    /\ \A r \in Requests : request[r].pc \in { "idle", "ingest", "answer", "draft" }
    /\ delivery \in [ Webhooks -> { "pending", "acked", "dropped" } ]
    /\ secret \in BOOLEAN
    /\ faults \in 0 .. MaxFaults

\* The provider stops at an acknowledgement, so one is given only when the
\* event is claimed, which commits together with its effect.
AckedIsApplied ==
    \A w \in Webhooks : delivery[w] = "acked" => w \in claims

\* Redelivery, duplicates in flight, failed transactions and restarts
\* neither lose nor repeat an attempt: an open case has counted each claimed
\* failure of its key exactly once.
AttemptsMatchClaims ==
    \A k \in Keys :
        ~IsFinal(cases[k]) =>
            cases[k].attempts = Cardinality({ w \in Webhooks :
                w \in claims /\ Hook[w].body.event \in FailureEvents
                /\ LogicalKey(Hook[w].body) = k })

\* The durable health table counts every applied charge outcome exactly
\* once, though the monitor's memory may have counted a failed attempt too:
\* the memory is never behind the table.
DurableHealthExact ==
    \A w \in Webhooks :
        /\ observed[w] = (IF w \in claims /\ Counted(w) THEN 1 ELSE 0)
        /\ window[w] >= observed[w]

KnownRows(invoice) ==
    { k \in Keys : /\ cases[k].state # "absent"
                   /\ \E w \in Webhooks : Hook[w].invoice = invoice
                                          /\ LogicalKey(Hook[w].body) = k }

\* The webhooks of one invoice name it in different entities.  They all reach
\* the one case it has: whatever is applied while the invoice has a case is
\* applied to that case.
EventsReachTheirCase ==
    [][ \A w \in Webhooks :
          w \in claims' \ claims =>
              KnownRows(Hook[w].invoice) \subseteq { LogicalKey(Hook[w].body) } ]_vars

Sound(w) == Hook[w].flaws = {} /\ Hook[w].body.event \in EventTypes

\* In the end the provider has a final answer for every webhook: none is sent
\* into redelivery for ever, and a sound one that the engine has a handler
\* for is acknowledged, never given a status on which the provider gives up.
EveryWebhookSettles ==
    <>[](\A w \in Webhooks :
            IF Sound(w) THEN delivery[w] = "acked" ELSE delivery[w] # "pending")

\* A merchant is shown an approved preview only with a clean body and with
\* the canonical link appended by code, whatever the model wrote; and a model
\* that fails never costs the merchant the preview.
PreviewIsSafe ==
    \A r \in Requests :
        LET q == request[r]
        IN q.pc = "answer" /\ q.key # Missing =>
             /\ q.draft.preview.approved =>
                  q.draft.preview.body = {} /\ q.draft.preview.appended /\ canonical[q.key]
             /\ q.draft.kind = "raised" =>
                  (q.draft.preview.approved <=> canonical[q.key])

=============================================================================
