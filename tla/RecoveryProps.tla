--------------------------- MODULE RecoveryProps ----------------------------
(***************************************************************************)
(* What RecoveryService owes its callers: the properties TLC checks on     *)
(* instances of Recovery and RecoveryProofs proves in general.             *)
(***************************************************************************)
EXTENDS Recovery

EventRecords ==
    [ type : EventTypes, key : Cases, no : Nat, at : Time,
      code : FailureCodes \cup { "none" }, amount : BOOLEAN,
      captured : BOOLEAN, link : Nat ]

Jobs ==
    [ pc : { "idle", "consider", "commit", "claim", "create", "created",
             "uncreated", "supersede", "cancel", "cancelled", "uncancelled",
             "sweep", "draft" },
      key : Cases \cup { None }, snap : CaseRecords, stale : BOOLEAN,
      at : Time, to : Decisions, amount : BOOLEAN, link : Nat,
      row : CancelRows, status : LinkStatuses ]

\* Jobs in which the worker has a link in hand.
HoldsLink == { "created", "supersede", "cancel", "cancelled", "uncancelled",
               "sweep", "draft" }

\* A busy worker works on a case, and every link that a case, a ledger row or
\* a worker names is one the provider created for that invoice.
RefsOK ==
    /\ \A k \in Cases : cases[k].link <= created[k]
    /\ \A k \in Cases, r \in CancelRows :
          cancels[k][r].status # "none" =>
              cancels[k][r].link \in 1 .. created[k]
    /\ \A w \in Workers : job[w].pc # "idle" => job[w].key \in Cases
    /\ \A w \in Workers : job[w].pc \in HoldsLink =>
          job[w].link \in 1 .. created[job[w].key]

\* Every variable has its type, and no row or worker names what does not exist.
TypeOK ==
    /\ cases \in [ Cases -> CaseRecords ]
    /\ creates \in [ Cases -> { "none", "started", "succeeded", "failed",
                                "superseded" } ]
    /\ cancels \in [ Cases -> [ CancelRows ->
          [ status : { "none", "started", "succeeded", "failed" },
            attempts : Nat, link : Nat ] ] ]
    /\ processed \in SUBSET EventRecords
    /\ plink \in [ Cases -> [ Links -> LinkStatuses ] ]
    /\ created \in [ Cases -> 0 .. MaxLinks ]
    /\ pay \in [ Cases -> { "failed", "authorized", "captured" } ]
    /\ sent \in SUBSET EventRecords /\ IsFiniteSet(sent)
    /\ now \in Time
    /\ job \in [ Workers -> Jobs ]
    /\ lock \in Workers \cup { None }
    /\ crashes \in Nat /\ reopens \in Nat
    /\ RefsOK

\* _create_recovery_link and record_action: whatever threads race, crash or
\* are retried, the provider is never asked for a second link of an invoice.
OneLinkPerInvoice == \A k \in Cases : created[k] <= 1

\* Only cases that wait on a timer have a deadline, and all of them do: one
\* without would never be picked by due_cases/_promote_timed_case again.  A
\* reversal closes the case and leaves the old deadline behind.
TimedCasesHaveDeadlines ==
    \A k \in Cases :
        /\ cases[k].state \in TimedStates => cases[k].due # NoTime
        /\ cases[k].due # NoTime =>
             cases[k].state \in TimedStates \cup { "recovery_reversed" }

\* The recovered states are the merchant's revenue figure (metrics()): each
\* one stands for money the provider really collected, by the path it names.
RecoveredMeansCollected ==
    \A k \in Cases :
        /\ cases[k].state = "recovered_natural" => pay[k] = "captured"
        /\ cases[k].state = "recovered_by_link" =>
             \E n \in Links : cases[k].link = n /\ plink[k][n] = "paid"

SettledStates == { "authorized_pending_capture", "recovered_natural",
                   "recovery_reversed" }

CancelInFlight(k, n) ==
    \E w \in Workers : /\ job[w].pc \in { "cancel", "cancelled", "uncancelled" }
                       /\ job[w].key = k /\ job[w].link = n

\* A payment link is a bearer URL.  Once the invoice is held, collected or
\* reversed, a published link that can still be paid is being revoked right
\* now, or its cancel failed and the case is flagged for reconciliation.
\* (A crash may lose the call in flight, so this needs crashes = 0.)
LiveLinkIsAccountedFor ==
    \A k \in Cases, n \in Links :
        (/\ plink[k][n] = "issued" /\ cases[k].link = n
         /\ cases[k].state \in SettledStates)
        => \/ CancelInFlight(k, n)
           \/ /\ cases[k].recon
              /\ \E r \in CancelRows : cancels[k][r].status = "failed"
                                       /\ cancels[k][r].link = n

\* "stopped" and "manual review" always tell the operator why.
ParkedHasReason ==
    \A k \in Cases :
        cases[k].state \in ParkedStates => cases[k].reason # "none"

\* A stored outreach draft always points at the live link of a case that
\* still waits for its customer, even though the draft is written while the
\* case may change.  (A reversal keeps the draft until its cancel lands.)
PreviewOnlyForLiveLink ==
    \A k \in Cases :
        cases[k].preview /\ cases[k].state # "recovery_reversed" =>
            cases[k].state = "link_sent" /\ HasCancellableLink(cases[k])

\* transition_to never raises out of a transaction: every change of state,
\* by whatever thread on whatever stale knowledge, is an edge of the table.
TransitionsAllowed ==
    [][ \A k \in Cases : cases[k].state # "absent" =>
          CanTransition(cases[k].state, cases[k].state') ]_vars

\* A closed case stays closed: it can only be reversed, and no thread that
\* was already creating its link publishes the link or spends a contact.
ClosedStaysClosed ==
    [][ \A k \in Cases : IsFinal(cases[k]) =>
          /\ cases'[k].state \in { cases[k].state, "recovery_reversed" }
          /\ cases'[k].link = cases[k].link
          /\ cases'[k].contacts = cases[k].contacts ]_vars

\* A failed cancel leaves the case flagged for a human, and webhooks, sweeps
\* and a reopen rewrite the row after it.  The flag goes away only when the
\* published link is really revoked at the provider.
FlagClearedMeansRevoked ==
    [][ \A k \in Cases : cases[k].recon /\ ~cases'[k].recon =>
          plink[k][cases[k].link] = "cancelled" ]_vars

\* The cases of k's customer.
SameCustomer(k) ==
    { j \in Cases : j = k \/ (/\ CustomerOf[k] # None
                             /\ CustomerOf[j] = CustomerOf[k]) }

\* Two contacts of one customer, about whatever invoices, are a contact
\* cooldown apart.
ContactsSpaced ==
    \A k \in Cases : \A j \in SameCustomer(k) \ { k } :
        cases[k].last # NoTime /\ cases[j].last # NoTime
        /\ cases[k].last <= cases[j].last
        => cases[j].last - cases[k].last >= ContactCooldown

\* No customer is contacted more than MaxContacts times in any window.
ContactBudgetKept ==
    \A k \in Cases : cases[k].last # NoTime =>
        Cardinality({ j \in SameCustomer(k) :
            /\ cases[j].last # NoTime /\ cases[j].last <= cases[k].last
            /\ cases[k].last - cases[j].last < ContactWindow }) <= MaxContacts

\* The ledger is durable: even across a crash, a published link that can
\* still be paid on a settled invoice has a cancel row that names it and is
\* not closed, so the debt is on record.
LiveLinkHasCancelRow ==
    \A k \in Cases, n \in Links :
        (/\ plink[k][n] = "issued" /\ cases[k].link = n
         /\ cases[k].state \in SettledStates)
        => \E r \in CancelRows : /\ cancels[k][r].status \in { "started", "failed" }
                                 /\ cancels[k][r].link = n

\* A failed cancel is retried by the sweep without any further webhook,
\* until it succeeds or its attempts are spent.
FailedCancelsSettle ==
    \A k \in Cases, r \in CancelRows :
        cancels[k][r].status = "failed" ~>
            \/ cancels[k][r].status = "succeeded"
            \/ cancels[k][r].status = "failed"
               /\ cancels[k][r].attempts = MaxCancelAttempts

\* A deadline that comes leads to a decision: the case leaves its timer or is
\* given a later deadline, so no cooldown and no retry window is forgotten.
DeadlinesAreKept ==
    \A k \in Cases, t \in 0 .. MaxTime :
        cases[k].state \in TimedStates /\ cases[k].due = t ~>
            cases[k].state \notin TimedStates \/ cases[k].due > t

-----------------------------------------------------------------------------
(* Claims of the documentation that the code does not keep *)

\* "opt-out honoured permanently, enforced per customer" (README): no contact
\* is spent on a case after its row says opted out.
SilencedIsNotContacted ==
    [][ \A k \in Cases : cases[k].optout =>
          cases'[k].contacts = cases[k].contacts ]_vars

\* "a budget that refills in seven days" (README): a case is refused for an
\* exhausted budget only when that many contacts fall inside the window.
BudgetRefills ==
    \A w \in Workers :
        job[w].pc = "commit" /\ job[w].to.reason = "contact_budget_exhausted" =>
            MapThenSumSet(LAMBDA j : EffectiveContacts(cases[j], job[w].at),
                          SameCustomer(job[w].key)) >= MaxContacts

=============================================================================
