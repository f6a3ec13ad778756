------------------------------ MODULE Recovery ------------------------------
(***************************************************************************)
(* RecoveryService (app/service.py) over RecoveryStore (app/store.py) with *)
(* the payment provider as its environment.                                *)
(*                                                                         *)
(* Threads of the API server (Workers) ingest webhooks, run the dispatch   *)
(* tick and draft outreach.  A database transaction is one step, a         *)
(* provider call is another, and anything may happen in between: that gap  *)
(* is what a worker's job record remembers.  Webhooks may be lost,         *)
(* delayed, reordered and delivered again, and the process may crash.      *)
(***************************************************************************)
EXTENDS CaseHandlers, FiniteSets, FiniteSetsExt

CONSTANTS
    Cases,               \* logical keys (invoices)
    None,                \* no case, no customer, no worker
    CustomerOf,          \* customer_id of every case
    Workers,             \* server threads
    Dispatchers,         \* the threads that may run a dispatch tick
    Kinds,               \* webhook types the environment may send
    Codes,               \* failure codes a payment.failed may carry
    MaxCancelAttempts,   \* settings.max_link_cancel_attempts
    Retention,           \* settings.processed_event_retention
    MaxTime, MaxFailures, MaxLinks, MaxCrashes, MaxReopens  \* bounds

ASSUME RecoveryAssumption ==
    /\ None \notin Cases /\ None \notin Workers
    /\ DOMAIN CustomerOf = Cases
    /\ Dispatchers \subseteq Workers
    /\ Kinds \subseteq EventTypes
    /\ Codes \subseteq FailureCodes
    /\ MaxCancelAttempts \in Nat \ {0} /\ Retention \in Nat
    /\ MaxTime \in Nat /\ MaxFailures \in Nat /\ MaxLinks \in Nat
    /\ MaxCrashes \in Nat /\ MaxReopens \in Nat

VARIABLES
    \* the database
    cases,       \* recovery_cases, by logical key
    creates,     \* status of the "<key>:payment_link:v1" action row
    cancels,     \* the payment_link.cancel action rows
    processed,   \* processed_events
    \* the provider
    plink,       \* status of each payment link
    created,     \* how many links were created for each invoice
    pay,         \* the original payment
    sent,        \* every webhook ever emitted
    \* the server
    now,         \* the clock
    job,         \* what each worker is in the middle of
    lock,        \* who holds the SQLite write lock across a step
    crashes, reopens   \* how often the bounded events happened

db == << cases, creates, cancels, processed >>
provider == << plink, created, pay, sent >>
bounded == << crashes, reopens >>
vars == << db, provider, now, job, lock, bounded >>

Links == 1 .. MaxLinks

\* Cancel rows: row n has key "...:payment_link.cancel:<link n>", row
\* ReversalRow has key "...:payment_link:cancel:reversal".
ReversalRow == 0
CancelRows == 0 .. MaxLinks

Event(type, key, no, code, captured, link) ==
    [ type |-> type, key |-> key, no |-> no, at |-> now, code |-> code,
      amount |-> type = "payment.failed", captured |-> captured,
      link |-> link ]

IdleJob == [ pc |-> "idle", key |-> None, snap |-> AbsentCase,
             stale |-> FALSE, at |-> 0, to |-> Decision("open", "none", NoTime),
             amount |-> FALSE, link |-> NoLink, row |-> 0, status |-> "none" ]

Idle(w) == job[w].pc = "idle"

\* BEGIN IMMEDIATE succeeds: nobody else is inside a write transaction.
Unlocked == lock = None

Init ==
    /\ cases = [ k \in Cases |-> AbsentCase ]
    /\ creates = [ k \in Cases |-> "none" ]
    /\ cancels = [ k \in Cases |-> [ r \in CancelRows |->
                    [ status |-> "none", attempts |-> 0, link |-> NoLink ] ] ]
    /\ processed = {}
    /\ plink = [ k \in Cases |-> [ n \in Links |-> "none" ] ]
    /\ created = [ k \in Cases |-> 0 ]
    /\ pay = [ k \in Cases |-> "failed" ]
    /\ sent = {}
    /\ now = 0
    /\ job = [ w \in Workers |-> IdleJob ]
    /\ lock = None
    /\ crashes = 0 /\ reopens = 0

-----------------------------------------------------------------------------
(* The store *)

\* Every save bumps the row's version, so a snapshot of it becomes stale.
Saved(keys) ==
    [ w \in Workers |->
        IF job[w].key \in keys /\ job[w].pc \in { "consider", "commit" }
        THEN [ job[w] EXCEPT !.stale = TRUE ] ELSE job[w] ]

\* Mutant: a failed attempt burns the key, as record_action does.
BadClaimable(row) == row.status = "none"

\* claim_action: a new row, or a failed one with attempts left.
Claimable(row) ==
    \/ row.status = "none"
    \/ row.status = "failed" /\ row.attempts < MaxCancelAttempts

\* Mutant: the row is closed when it is claimed, before the provider is asked.
BadClaimed(row, link) ==
    [ status |-> "succeeded", attempts |-> row.attempts + 1, link |-> link ]

Claimed(row, link) ==
    IF row.status = "none"
    THEN [ status |-> "started", attempts |-> 1, link |-> link ]
    ELSE [ row EXCEPT !.status = "started", !.attempts = @ + 1 ]

Siblings(k) ==
    { j \in Cases \ { k } : /\ CustomerOf[k] # None
                            /\ CustomerOf[j] = CustomerOf[k]
                            /\ cases[j].state # "absent" }

\* Mutant: the budget of one invoice.
BadSiblingContacts(k) == 0

\* customer_contact_state, as _may_contact uses it: the newest contact of the
\* siblings is inside the cooldown iff some contact is.
SiblingContacts(k) ==
    MapThenSumSet(LAMBDA j : cases[j].contacts, Siblings(k))

SiblingOptedOut(k) == \E j \in Siblings(k) : cases[j].optout

\* Mutant: the comparison is inverted.
BadSiblingContactedSince(k, t) ==
    \E j \in Siblings(k) : cases[j].last # NoTime
                           /\ t - cases[j].last > ContactCooldown

SiblingContactedSince(k, t) ==
    \E j \in Siblings(k) : cases[j].last # NoTime
                           /\ t - cases[j].last < ContactCooldown

-----------------------------------------------------------------------------
(* ingest(): one transaction; a link to revoke is handed to the caller's    *)
(* thread, which calls the provider after the commit.                       *)

Receive(w, e, family) ==
    /\ Unlocked /\ Idle(w)
    /\ e \in sent \ processed          \* claim_event
    /\ e.type \in family
    /\ processed' = processed \cup { e }
    /\ UNCHANGED << creates, provider, now, lock, bounded >>

IngestFailure(w, e) ==
    /\ Receive(w, e, FailureEvents)
    /\ \E degraded \in BOOLEAN :
          cases' = [ cases EXCEPT ![e.key] = HandleFailure(@, e, degraded) ]
    /\ job' = Saved(IF IsFinal(cases[e.key]) THEN {} ELSE { e.key })
    /\ UNCHANGED cancels

CancelJob(k, r, link) ==
    [ IdleJob EXCEPT !.pc = "cancel", !.key = k, !.row = r, !.link = link,
                     !.at = now ]

IngestSuccess(w, e) ==
    LET k == e.key
        c == cases[k]
        scheduled == HasCancellableLink(c) /\ Claimable(cancels[k][c.link])
    IN /\ Receive(w, e, SuccessEvents)
       /\ IF c.state = "absent" \/ IsFinal(c)
          THEN UNCHANGED << cases, cancels, job >>
          ELSE /\ cases' = [ cases EXCEPT ![k] = HandleSuccess(c, e, scheduled) ]
               /\ cancels' = IF scheduled
                             THEN [ cancels EXCEPT ![k][c.link] = Claimed(@, c.link) ]
                             ELSE cancels
               /\ job' = IF scheduled
                         THEN [ Saved({ k }) EXCEPT ![w] = CancelJob(k, c.link, c.link) ]
                         ELSE Saved({ k })

IngestLink(w, e) ==
    LET c == cases[e.key]
        foreign == c.link # NoLink /\ e.link # c.link
    IN /\ Receive(w, e, LinkEvents)
       /\ IF c.state = "absent" \/ foreign
          THEN UNCHANGED << cases, job >>
          ELSE /\ cases' = [ cases EXCEPT ![e.key] = HandleLink(@, e) ]
               /\ job' = Saved({ e.key })
       /\ UNCHANGED cancels

IngestReversal(w, e) ==
    LET k == e.key
        c == cases[k]
        revoke == HasCancellableLink(c) /\ Claimable(cancels[k][ReversalRow])
        silenced == { j \in Siblings(k) : ~cases[j].optout }
    IN /\ Receive(w, e, ReversalEvents)
       /\ IF c.state \in { "absent", "recovery_reversed" }
          THEN UNCHANGED << cases, cancels, job >>
          ELSE /\ cases' = [ j \in Cases |->
                    IF j = k THEN HandleReversal(c)
                    ELSE IF j \in silenced THEN [ cases[j] EXCEPT !.optout = TRUE ]
                    ELSE cases[j] ]
               /\ cancels' = IF revoke
                             THEN [ cancels EXCEPT ![k][ReversalRow] = Claimed(@, c.link) ]
                             ELSE cancels
               /\ job' = IF revoke
                         THEN [ Saved(silenced \cup { k }) EXCEPT
                                  ![w] = CancelJob(k, ReversalRow, c.link) ]
                         ELSE Saved(silenced \cup { k })

Ingest(w, e) == \/ IngestFailure(w, e) \/ IngestSuccess(w, e)
                \/ IngestLink(w, e) \/ IngestReversal(w, e)

-----------------------------------------------------------------------------
(* dispatch_due_actions(): the timers, then the links, then the sweep of    *)
(* failed cancels.  A tick handles its batch case by case; here a           *)
(* dispatcher takes one due case at a time, in any order.                   *)

\* Mutant: nothing picks up a retry window that elapsed.
BadDueTimers(c, t) ==
    \/ c.state = "cooldown" /\ c.due # NoTime /\ c.due <= t
    \/ c.state = "consent_required" /\ (c.due = NoTime \/ c.due <= t)

\* due_cases, and the early return of _promote_timed_case.
Due(c, t) ==
    \/ c.state \in TimedStates /\ c.due # NoTime /\ c.due <= t
    \/ c.state = "consent_required" /\ (c.due = NoTime \/ c.due <= t)

Pick(w, k) ==
    /\ w \in Dispatchers /\ Idle(w)
    /\ Due(cases[k], now)
    /\ job' = [ job EXCEPT ![w] = [ IdleJob EXCEPT
                  !.pc = "consider", !.key = k, !.snap = cases[k], !.at = now ] ]
    /\ UNCHANGED << db, provider, now, lock, bounded >>

\* _may_contact on a snapshot: its own budget first, then the siblings' rows
\* as they are now.  "none" means allowed.
MayContact(k, c, t) ==
    IF ContactBlocked(c, t) # "none" THEN ContactBlocked(c, t)
    ELSE IF CustomerOf[k] = None THEN "none"
    ELSE IF SiblingOptedOut(k) THEN "customer_opted_out"
    ELSE IF EffectiveContacts(c, t) + SiblingContacts(k) >= MaxContacts
         THEN "contact_budget_exhausted"
    ELSE IF SiblingContactedSince(k, t) THEN "contact_cooldown_active"
    ELSE "none"

\* The decision part of _promote_timed_case and of _create_recovery_link.
Consider(w) ==
    LET j == job[w]
        blocked == MayContact(j.key, j.snap, j.at)
        Promote(d) == job' = [ job EXCEPT ![w] =
            [ IdleJob EXCEPT !.pc = "commit", !.key = j.key, !.stale = j.stale,
                             !.at = j.at, !.to = d ] ]
    IN /\ j.pc = "consider"
       /\ \/ /\ j.snap.state = "cooldown"
             /\ \E d \in CooldownOutcomes(j.at) : Promote(d)
          \/ /\ j.snap.state = "retry_scheduled"
             /\ Promote(RetryOutcome(j.snap, blocked))
          \/ /\ j.snap.state = "consent_required"
             /\ blocked # "none"
             /\ Promote(Refusal(blocked))
          \/ /\ j.snap.state = "consent_required"
             /\ blocked = "none"
             /\ job' = [ job EXCEPT ![w] =
                   [ IdleJob EXCEPT !.pc = "claim", !.key = j.key, !.at = j.at,
                                    !.amount = j.snap.amount ] ]
       /\ UNCHANGED << db, provider, now, lock, bounded >>

Commit(w) ==
    LET j == job[w]
        c == cases[j.key]
    IN /\ j.pc = "commit" /\ Unlocked
       /\ IF j.stale \/ IsFinal(c) \/ ~CanTransition(c.state, j.to.state)
          THEN /\ job' = [ job EXCEPT ![w] = IdleJob ]
               /\ UNCHANGED cases
          ELSE /\ cases' = [ cases EXCEPT ![j.key] = Committed(@, j.to) ]
               /\ job' = [ Saved({ j.key }) EXCEPT ![w] = IdleJob ]
       /\ UNCHANGED << creates, cancels, processed, provider, now, lock, bounded >>

-----------------------------------------------------------------------------
(* _create_recovery_link: claim the key, call the provider, persist.        *)

\* Mutant: a failed creation may be claimed again, as a failed cancel may.
BadCreateClaimable(status) == status \in { "none", "failed" }

\* record_action: ON CONFLICT DO NOTHING.
CreateClaimable(status) == status = "none"

ClaimCreate(w) ==
    LET j == job[w]
    IN /\ j.pc = "claim" /\ Unlocked
       /\ IF CreateClaimable(creates[j.key])
          THEN /\ creates' = [ creates EXCEPT ![j.key] = "started" ]
               /\ job' = [ job EXCEPT ![w].pc = "create" ]
          ELSE /\ job' = [ job EXCEPT ![w] = IdleJob ]
               /\ UNCHANGED creates
       /\ UNCHANGED << cases, cancels, processed, provider, now, lock, bounded >>

\* The provider made a link; its answer may be lost, which is a transient
\* failure, or unreadable, which is a permanent one.
ProviderCreates(w) ==
    LET j == job[w]
        n == created[j.key] + 1
    IN /\ j.pc = "create" /\ j.amount /\ n <= MaxLinks
       /\ created' = [ created EXCEPT ![j.key] = n ]
       /\ plink' = [ plink EXCEPT ![j.key][n] = "issued" ]
       /\ \/ job' = [ job EXCEPT ![w].pc = "created", ![w].link = n ]
          \/ \E reason \in { "payment_link_create_unavailable",
                            "payment_link_create_rejected" } :
               job' = [ job EXCEPT ![w].pc = "uncreated", ![w].to.reason = reason ]
       /\ UNCHANGED << db, pay, sent, now, lock, bounded >>

\* No link: a transient failure or a permanent rejection.  An amount that is
\* not positive is always rejected.
ProviderRefuses(w) ==
    LET j == job[w]
    IN /\ j.pc = "create"
       /\ \E reason \in { "payment_link_create_rejected" } \cup
               (IF j.amount THEN { "payment_link_create_unavailable" } ELSE {}) :
            job' = [ job EXCEPT ![w].pc = "uncreated", ![w].to.reason = reason ]
       /\ UNCHANGED << db, provider, now, lock, bounded >>

RecordUncreated(w) ==
    LET j == job[w]
    IN /\ j.pc = "uncreated" /\ Unlocked
       /\ creates' = [ creates EXCEPT ![j.key] = "failed" ]
       /\ IF cases[j.key].state = "consent_required"
          THEN /\ cases' = [ cases EXCEPT ![j.key].state = "manual_review",
                                          ![j.key].reason = j.to.reason ]
               /\ job' = [ Saved({ j.key }) EXCEPT ![w] = IdleJob ]
          ELSE /\ job' = [ job EXCEPT ![w] = IdleJob ]
               /\ UNCHANGED cases
       /\ UNCHANGED << cancels, processed, provider, now, lock, bounded >>

\* Mutant: the answer is persisted without looking at the row again.
BadRecordCreated(w) ==
    LET j == job[w]
    IN /\ j.pc = "created" /\ Unlocked
       /\ cases' = [ cases EXCEPT ![j.key] = LinkSent(@, j.link, j.at) ]
       /\ creates' = [ creates EXCEPT ![j.key] = "succeeded" ]
       /\ job' = [ Saved({ j.key }) EXCEPT ![w] = IdleJob ]
       /\ UNCHANGED << cancels, processed, provider, now, lock, bounded >>

\* The case moved on while the provider worked: the transaction stays open
\* while the fresh link is revoked.
RecordCreated(w) ==
    LET j == job[w]
    IN /\ j.pc = "created" /\ Unlocked
       /\ IF cases[j.key].state = "consent_required"
          THEN /\ cases' = [ cases EXCEPT ![j.key] = LinkSent(@, j.link, j.at) ]
               /\ creates' = [ creates EXCEPT ![j.key] = "succeeded" ]
               /\ job' = [ Saved({ j.key }) EXCEPT ![w] = IdleJob ]
               /\ UNCHANGED lock
          ELSE /\ job' = [ job EXCEPT ![w].pc = "supersede" ]
               /\ lock' = w
               /\ UNCHANGED << cases, creates >>
       /\ UNCHANGED << cancels, processed, provider, now, bounded >>

\* The provider's side of a cancel: an issued link is cancelled, and the
\* cancellation is announced by webhook; any other status is left alone.
ProviderCancels(k, n) ==
    IF plink[k][n] = "issued"
    THEN /\ plink' = [ plink EXCEPT ![k][n] = "cancelled" ]
         /\ sent' = IF "payment_link.cancelled" \in Kinds
                    THEN sent \cup { Event("payment_link.cancelled", k, 0, "none",
                                           FALSE, n) }
                    ELSE sent
    ELSE UNCHANGED << plink, sent >>

\* _cancel_quietly inside the open transaction, then "superseded", then COMMIT.
Supersede(w) ==
    LET j == job[w]
    IN /\ j.pc = "supersede"
       /\ \/ ProviderCancels(j.key, j.link)
          \/ UNCHANGED << plink, sent >>
       /\ creates' = [ creates EXCEPT ![j.key] = "superseded" ]
       /\ job' = [ job EXCEPT ![w] = IdleJob ]
       /\ lock' = None
       /\ UNCHANGED << cases, cancels, processed, created, pay, now, bounded >>

-----------------------------------------------------------------------------
(* _execute_cancel and retry_failed_link_cancels *)

\* The answer is the link's status; or an error, whether or not the call
\* took effect.
CancelCall(w) ==
    LET j == job[w]
        Answer(status) == job' = [ job EXCEPT ![w].pc = "cancelled",
                                              ![w].status = status ]
        Error == job' = [ job EXCEPT ![w].pc = "uncancelled" ]
    IN /\ j.pc = "cancel"
       /\ \/ /\ ProviderCancels(j.key, j.link)
             /\ Answer(plink'[j.key][j.link]) \/ Error
          \/ /\ UNCHANGED << plink, sent >>
             /\ Error
       /\ UNCHANGED << db, created, pay, now, lock, bounded >>

RecordCancelled(w) ==
    LET j == job[w]
    IN /\ j.pc = "cancelled" /\ Unlocked
       /\ cancels' = [ cancels EXCEPT ![j.key][j.row].status = "succeeded" ]
       /\ cases' = [ cases EXCEPT ![j.key] = CancelRecorded(@, j.status) ]
       /\ job' = [ Saved({ j.key }) EXCEPT ![w] = IdleJob ]
       /\ UNCHANGED << creates, processed, provider, now, lock, bounded >>

RecordUncancelled(w) ==
    LET j == job[w]
    IN /\ j.pc = "uncancelled" /\ Unlocked
       /\ cancels' = [ cancels EXCEPT ![j.key][j.row].status = "failed" ]
       /\ cases' = [ cases EXCEPT ![j.key].recon = TRUE,
                                  ![j.key].reason = "payment_link_cancel_failed" ]
       /\ job' = [ Saved({ j.key }) EXCEPT ![w] = IdleJob ]
       /\ UNCHANGED << creates, processed, provider, now, lock, bounded >>

\* failed_actions, and the case of one of the rows.
SweepRead(w, k, r) ==
    /\ w \in Dispatchers /\ Idle(w)
    /\ cancels[k][r].status = "failed"
    /\ cancels[k][r].attempts < MaxCancelAttempts
    /\ job' = [ job EXCEPT ![w] = [ IdleJob EXCEPT
                  !.pc = "sweep", !.key = k, !.row = r,
                  !.link = cancels[k][r].link, !.status = cases[k].lstat ] ]
    /\ UNCHANGED << db, provider, now, lock, bounded >>

\* Already revoked: close the row.  Otherwise claim it again.
Sweep(w) ==
    LET j == job[w]
        row == cancels[j.key][j.row]
    IN /\ j.pc = "sweep" /\ Unlocked
       /\ IF j.status = "cancelled"
          THEN /\ cancels' = [ cancels EXCEPT ![j.key][j.row].status = "succeeded" ]
               /\ job' = [ job EXCEPT ![w] = IdleJob ]
          ELSE IF Claimable(row)
          THEN /\ cancels' = [ cancels EXCEPT ![j.key][j.row] = Claimed(@, j.link) ]
               /\ job' = [ job EXCEPT ![w] = CancelJob(j.key, j.row, j.link) ]
          ELSE /\ job' = [ job EXCEPT ![w] = IdleJob ]
               /\ UNCHANGED cancels
       /\ UNCHANGED << cases, creates, processed, provider, now, lock, bounded >>

-----------------------------------------------------------------------------
(* create_outreach_preview and reopen *)

PreviewRead(w, k) ==
    /\ Idle(w)
    /\ cases[k].state = "link_sent" /\ HasCancellableLink(cases[k])
    /\ job' = [ job EXCEPT ![w] = [ IdleJob EXCEPT
                  !.pc = "draft", !.key = k, !.link = cases[k].link ] ]
    /\ UNCHANGED << db, provider, now, lock, bounded >>

\* Mutant: the draft is stored whatever became of the case meanwhile.
BadPreviewSave(w) ==
    LET j == job[w]
    IN /\ j.pc = "draft" /\ Unlocked
       /\ cases' = [ cases EXCEPT ![j.key].preview = TRUE ]
       /\ job' = [ Saved({ j.key }) EXCEPT ![w] = IdleJob ]
       /\ UNCHANGED << creates, cancels, processed, provider, now, lock, bounded >>

PreviewSave(w) ==
    LET j == job[w]
    IN /\ j.pc = "draft" /\ Unlocked
       /\ IF cases[j.key].state = "link_sent" /\ cases[j.key].link = j.link
          THEN /\ cases' = [ cases EXCEPT ![j.key].preview = TRUE ]
               /\ job' = [ Saved({ j.key }) EXCEPT ![w] = IdleJob ]
          ELSE /\ job' = [ job EXCEPT ![w] = IdleJob ]
               /\ UNCHANGED cases
       /\ UNCHANGED << creates, cancels, processed, provider, now, lock, bounded >>

Reopen(k, class) ==
    /\ Unlocked /\ reopens < MaxReopens
    /\ cases[k].state = "manual_review"
    /\ \E degraded \in BOOLEAN :
          cases' = [ cases EXCEPT ![k] = Reopened(@, class, now, degraded) ]
    /\ job' = Saved({ k })
    /\ reopens' = reopens + 1
    /\ UNCHANGED << creates, cancels, processed, provider, now, lock, crashes >>

-----------------------------------------------------------------------------
(* The environment: customers, the bank, the provider, the clock            *)

Emit(e) ==
    /\ e.type \in Kinds
    /\ \A f \in sent : << f.type, f.key, f.no, f.link >> # << e.type, e.key, e.no, e.link >>
    /\ sent' = sent \cup { e }

FailuresOf(k) == { e \in sent : e.key = k /\ e.type \in FailureEvents }

\* A declined charge; subscription events carry neither a code nor an amount.
Decline(k, type) ==
    /\ pay[k] # "captured" /\ Cardinality(FailuresOf(k)) < MaxFailures
    /\ \E code \in (IF type = "payment.failed" THEN Codes ELSE { "none" }) :
          Emit(Event(type, k, Cardinality(FailuresOf(k)) + 1, code, FALSE, NoLink))
    /\ UNCHANGED << db, plink, created, pay, now, job, lock, bounded >>

Authorise(k) ==
    /\ pay[k] = "failed" /\ FailuresOf(k) # {}
    /\ pay' = [ pay EXCEPT ![k] = "authorized" ]
    /\ Emit(Event("payment.authorized", k, 0, "none", FALSE, NoLink))
    /\ UNCHANGED << db, plink, created, now, job, lock, bounded >>

\* Capture is announced by any success event, an authorisation that is
\* already captured included.
Capture(k, type) ==
    /\ FailuresOf(k) # {}
    /\ pay' = [ pay EXCEPT ![k] = "captured" ]
    /\ Emit(Event(type, k, 0, "none", TRUE, NoLink))
    /\ UNCHANGED << db, plink, created, now, job, lock, bounded >>

\* Only a link whose URL the case publishes can be paid.
PayLink(k, n) ==
    /\ cases[k].link = n /\ plink[k][n] \in { "issued", "partially_paid" }
    /\ \E status \in { "paid", "partially_paid" } \ { plink[k][n] } :
          /\ plink' = [ plink EXCEPT ![k][n] = status ]
          /\ Emit(Event(IF status = "paid" THEN "payment_link.paid"
                        ELSE "payment_link.partially_paid", k, 0, "none", FALSE, n))
    /\ UNCHANGED << db, created, pay, now, job, lock, bounded >>

\* A link lapses, or the merchant withdraws it.
CloseLink(k, n) ==
    /\ plink[k][n] = "issued"
    /\ \E status \in { "expired", "cancelled" } :
          /\ plink' = [ plink EXCEPT ![k][n] = status ]
          /\ Emit(Event(IF status = "expired" THEN "payment_link.expired"
                        ELSE "payment_link.cancelled", k, 0, "none", FALSE, n))
    /\ UNCHANGED << db, created, pay, now, job, lock, bounded >>

\* A refund or a dispute of some charge under this key (a subscription's
\* key covers its earlier charges too), so at any time.
Reverse(k, type) ==
    /\ FailuresOf(k) # {}
    /\ Emit(Event(type, k, 0, "none", FALSE, NoLink))
    /\ UNCHANGED << db, plink, created, pay, now, job, lock, bounded >>

Tick ==
    /\ now < MaxTime
    /\ now' = now + 1
    /\ UNCHANGED << db, provider, job, lock, bounded >>

\* The process dies: an open transaction rolls back, calls in flight are
\* forgotten, and the restarted server prunes old idempotency claims.
Crash ==
    /\ crashes < MaxCrashes
    /\ crashes' = crashes + 1
    /\ job' = [ w \in Workers |-> IdleJob ]
    /\ lock' = None
    /\ processed' = { e \in processed : e.at >= now - Retention }
    /\ UNCHANGED << cases, creates, cancels, provider, now, reopens >>

-----------------------------------------------------------------------------
Work(w) ==
    \/ Consider(w) \/ Commit(w) \/ ClaimCreate(w)
    \/ ProviderCreates(w) \/ ProviderRefuses(w)
    \/ RecordUncreated(w) \/ RecordCreated(w) \/ Supersede(w)
    \/ CancelCall(w) \/ RecordCancelled(w) \/ RecordUncancelled(w)
    \/ Sweep(w) \/ PreviewSave(w)

Start(w) ==
    \/ \E e \in sent : Ingest(w, e)
    \/ \E k \in Cases : Pick(w, k) \/ PreviewRead(w, k)
    \/ \E k \in Cases, r \in CancelRows : SweepRead(w, k, r)

Operator == \E k \in Cases, class \in FailureClasses \cup { "none" } : Reopen(k, class)

Environment ==
    \/ \E k \in Cases :
         \/ \E type \in FailureEvents : Decline(k, type)
         \/ Authorise(k)
         \/ \E type \in SuccessEvents : Capture(k, type)
         \/ \E n \in Links : PayLink(k, n) \/ CloseLink(k, n)
         \/ \E type \in ReversalEvents : Reverse(k, type)
    \/ Tick

Next == (\E w \in Workers : Work(w) \/ Start(w)) \/ Operator \/ Environment \/ Crash

Spec == Init /\ [][Next]_vars

\* A request that was started is finished (every provider call times out),
\* a tick visits every due case and every failed cancel, the ticks go on,
\* and so does the clock.  Nothing makes a customer, the provider's webhooks
\* or an operator act.
Fairness ==
    /\ \A w \in Workers : WF_vars(Work(w))
    /\ \A w \in Dispatchers, k \in Cases : SF_vars(Pick(w, k))
    /\ \A w \in Dispatchers, k \in Cases, r \in CancelRows :
          SF_vars(SweepRead(w, k, r))
    /\ WF_vars(Tick)

FairSpec == Spec /\ Fairness

=============================================================================
