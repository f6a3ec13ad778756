-------------------------- MODULE SettlementProofs --------------------------
(***************************************************************************)
(* What ties the case rows and the cancel ledger to the provider, on every *)
(* instance: a recovered case stands for collected money, a link that can  *)
(* still be paid on a settled invoice is on the ledger, the operator's     *)
(* flag and reason tell the truth, and a draft points at a live link.      *)
(***************************************************************************)
EXTENDS RecoveryProofs

-----------------------------------------------------------------------------
(* What the row functions do to the fields that matter here *)

\* The states decide() and the timers may ask for.
EngineStates == TimedStates \cup ParkedStates \cup { "consent_required" }

\* The states a case waits in for a tick.
WaitingStates == TimedStates \cup { "consent_required" }

\* The row d keeps the link of c, what is known of it, the flag and the draft.
KeepsLink(c, d) ==
    /\ d.link = c.link /\ d.lstat = c.lstat
    /\ d.recon = c.recon /\ d.preview = c.preview

\* A decision that parks a case says why.
Explained(d) == d.state \in ParkedStates => d.reason # "none"

\* decide() explains itself.
LEMMA DecideExplains ==
  ASSUME NEW c, NEW t, NEW b
  PROVE  Decide(c, t, b).state \in EngineStates /\ Explained(Decide(c, t, b))
  BY DEF Decide, Decision, EngineStates, TimedStates, ParkedStates, Explained

\* The groups of fields that are written together leave the others alone.
LEMMA RowFields ==
  ASSUME NEW g \in CaseRecords
  PROVE  /\ \A n, b : /\ KeepsLink(g, CountedRow(g, n, b))
                      /\ CountedRow(g, n, b).state = g.state
                      /\ CountedRow(g, n, b).reason = g.reason
         /\ \A f, k, b, n : /\ KeepsLink(g, SeenRow(g, f, k, b, n))
                            /\ SeenRow(g, f, k, b, n).state = g.state
                            /\ SeenRow(g, f, k, b, n).reason = g.reason
         /\ \A s, u, r : /\ KeepsLink(g, DecidedRow(g, s, u, r))
                         /\ DecidedRow(g, s, u, r).state = s
                         /\ DecidedRow(g, s, u, r).reason = r
  <1>1. ASSUME NEW n, NEW b
        PROVE  LET h == CountedRow(g, n, b)
               IN KeepsLink(g, h) /\ h.state = g.state /\ h.reason = g.reason
    BY DEF CountedRow, CaseRecords, KeepsLink
  <1>2. ASSUME NEW f, NEW k, NEW b, NEW n
        PROVE  LET h == SeenRow(g, f, k, b, n)
               IN KeepsLink(g, h) /\ h.state = g.state /\ h.reason = g.reason
    BY DEF SeenRow, CaseRecords, KeepsLink
  <1>3. ASSUME NEW s, NEW u, NEW r
        PROVE  LET h == DecidedRow(g, s, u, r)
               IN KeepsLink(g, h) /\ h.state = s /\ h.reason = r
    BY DEF DecidedRow, CaseRecords, KeepsLink
  <1>4. QED
    BY <1>1, <1>2, <1>3

\* Marking a link's status drops the draft.
LEMMA MarkFields ==
  ASSUME NEW g \in CaseRecords, NEW x
  PROVE  LET h == MarkedRow(g, FALSE, x)
         IN /\ h.link = g.link /\ h.lstat = x /\ ~h.preview
            /\ h.recon = g.recon /\ h.state = g.state /\ h.reason = g.reason
  BY DEF MarkedRow, CaseRecords

\* A failure leaves link, flag and draft alone; it moves only a case that was
\* not acted on yet, to a state that decide() explains.
LEMMA FailureFields ==
  ASSUME NEW c \in CaseRecords, NEW e \in EventRecords, NEW b \in BOOLEAN
  PROVE  LET h == HandleFailure(c, e, b)
         IN /\ h.state # "absent"
            /\ c.state # "absent" => KeepsLink(c, h)
            /\ c.state = "absent" => /\ h.link = NoLink /\ h.lstat = "none"
                                     /\ ~h.recon /\ ~h.preview
            /\ \/ h.state = c.state /\ h.reason = c.reason
               \/ h.state = "open" /\ c.state = "absent"
               \/ /\ c.state \notin FinalStates \cup AlreadyActioned
                  /\ h.state \in EngineStates /\ Explained(h)
  <1> DEFINE d0 == FoundRow(c, e)
             code == IF e.code # "none" THEN e.code ELSE d0.code
             k == ClassifyFailure(code)
             am == d0.amount \/ e.amount
             n == d0.attempts + 1
             again == CountedRow(d0, n, am)
             seen == SeenRow(d0, code, k, am, n)
             d == Decide(seen, e.at, b)
             r == IF d.state \in ParkedStates THEN d.reason ELSE "none"
             out == DecidedRow(seen, d.state, d.due, r)
             h == HandleFailure(c, e, b)
  <1>0. EventOK(e)
    BY EventsAreOK
  <1>1. /\ d0 \in CaseRecords /\ d0.state # "absent"
        /\ c.state # "absent" => d0 = c
        /\ c.state = "absent" => /\ d0.state = "open" /\ d0.link = NoLink
                                 /\ d0.lstat = "none" /\ ~d0.recon /\ ~d0.preview
    <2>1. d0 \in CaseRecords /\ d0.state # "absent" /\ (c.state # "absent" => d0 = c)
      BY <1>0, FoundRowType
    <2>2. c.state = "absent" => /\ d0.state = "open" /\ d0.link = NoLink
                                /\ d0.lstat = "none" /\ ~d0.recon /\ ~d0.preview
      BY DEF FoundRow, NewCase
    <2>3. QED
      BY <2>1, <2>2
  <1>2. h = IF IsFinal(d0) THEN d0
            ELSE IF d0.state \in AlreadyActioned THEN again
            ELSE IF ~CanTransition(d0.state, d.state) THEN seen ELSE out
    BY DEF HandleFailure, FoundRow, CountedRow, SeenRow, DecidedRow
  <1>3. d.state \in EngineStates /\ Explained(d)
    BY DecideExplains
  <1>4. seen \in CaseRecords
    <2>1. /\ code \in FailureCodes \cup { "none" } /\ k \in FailureClasses
          /\ am \in BOOLEAN /\ n \in Nat
      <3>1. d0.attempts \in Nat /\ d0.code \in FailureCodes \cup { "none" }
        BY <1>1 DEF CaseRecords
      <3> HIDE DEF d0
      <3>2. QED
        BY <1>0, <3>1, ClassifyType DEF EventOK
    <2> HIDE DEF d0, code, k, am, n
    <2>2. QED
      BY <1>1, <2>1, SeenRowType
  <1> HIDE DEF d0, code, k, am, n
  <1>5. /\ KeepsLink(d0, again) /\ again.state = d0.state /\ again.reason = d0.reason
        /\ KeepsLink(d0, seen) /\ seen.state = d0.state /\ seen.reason = d0.reason
    BY <1>1, RowFields
  <1> HIDE DEF again, seen, d
  <1>6. KeepsLink(seen, out) /\ out.state = d.state /\ out.reason = r
    BY <1>4, RowFields
  <1>7. out.state # "absent" /\ out.state \in EngineStates /\ Explained(out)
    BY <1>3, <1>6 DEF Explained, EngineStates, TimedStates, ParkedStates
  <1> HIDE DEF r, out, h
  <1>8. h.state # "absent" /\ KeepsLink(d0, h)
    BY <1>1, <1>2, <1>5, <1>6, <1>7 DEF KeepsLink
  <1>9. \/ h.state = d0.state /\ h.reason = d0.reason
        \/ /\ d0.state \notin FinalStates \cup AlreadyActioned
           /\ h.state \in EngineStates /\ Explained(h)
    BY <1>2, <1>5, <1>7 DEF IsFinal
  <1>10. QED
    BY <1>1, <1>8, <1>9 DEF KeepsLink, FinalStates, AlreadyActioned, h

-----------------------------------------------------------------------------
(* What a case row and its cancel rows owe the provider *)

\* The row c of a case, when its link has status p at the provider and the
\* original payment the status paid.
RowFine(c, p, paid) ==
    /\ c.state = "absent" => c.link = NoLink /\ ~c.recon /\ ~c.preview
    /\ c.lstat = "cancelled" => p = "cancelled"
    /\ c.link = 1 /\ p = "issued" => c.lstat = "issued"
    /\ c.link = 1 /\ c.lstat \in CancellableLinkStatuses =>
         c.state \in SettledStates \cup { "link_sent" }
    /\ c.state = "link_sent" => c.link = 1 /\ c.lstat = "issued"
    /\ c.preview => c.state \in { "link_sent", "recovery_reversed" }
    /\ c.state \in ParkedStates => c.reason # "none"
    /\ c.state = "recovered_natural" => paid = "captured"
    /\ c.state = "recovered_by_link" => c.link = 1 /\ p = "paid"

\* The cancel rows l of that case: only a settled case, or one whose link has
\* money on it, has any; a closed row means the link cannot be paid from
\* "issued" any more; a failed one is flagged; and a live link of a settled
\* case has an open one.
LedgerFine(c, l, p) ==
    /\ \A r \in CancelRows : l[r].status # "none" =>
         /\ c.link = 1
         /\ \/ c.state \in SettledStates
            \/ p \in { "paid", "partially_paid" } /\ c.state # "link_sent"
    /\ \A r \in CancelRows : l[r].status = "succeeded" => p # "issued"
    /\ \A r \in CancelRows : l[r].status = "failed" => c.recon \/ p # "issued"
    /\ c.link = 1 /\ p = "issued" /\ c.state \in SettledStates =>
         \E r \in CancelRows : l[r].status \in { "started", "failed" }

Fine(c, l, p, paid) == RowFine(c, p, paid) /\ LedgerFine(c, l, p)

\* A row keeps its link, and its flag unless the link is revoked.
Onward(c, d, p) ==
    /\ d.link = c.link
    /\ c.recon /\ ~d.recon => c.link = 1 /\ p = "cancelled"

\* The cancel rows m are l with row r in status s.
Ledgered(l, m, r, s) ==
    \A q \in CancelRows : m[q].status = IF q = r THEN s ELSE l[q].status

-----------------------------------------------------------------------------
(* What each change of a row does to that, whatever the row was *)

\* A row that changes in nothing that matters.
LEMMA QuietRow ==
  ASSUME NEW c, NEW d, NEW l, NEW p, NEW paid, Fine(c, l, p, paid),
         KeepsLink(c, d), d.state = c.state, d.reason = c.reason
  PROVE  Fine(d, l, p, paid) /\ Onward(c, d, p)
  BY DEF Fine, RowFine, LedgerFine, Onward, KeepsLink

\* A new row.
LEMMA FreshRow ==
  ASSUME NEW c, NEW d, NEW l, NEW p, NEW paid, Fine(c, l, p, paid),
         c.state = "absent", d.link = NoLink, d.lstat = "none", ~d.recon, ~d.preview,
         d.state \in EngineStates \cup { "open" }, Explained(d)
  PROVE  Fine(d, l, p, paid) /\ Onward(c, d, p)
  <1>1. c.link = NoLink /\ ~c.recon
    BY DEF Fine, RowFine
  <1>2. \A r \in CancelRows : l[r].status = "none"
    BY <1>1 DEF Fine, LedgerFine, NoLink
  <1>3. RowFine(d, p, paid)
    BY DEF RowFine, EngineStates, TimedStates, ParkedStates, NoLink, Explained
  <1>4. LedgerFine(d, l, p)
    BY <1>2 DEF LedgerFine, NoLink
  <1>5. QED
    BY <1>1, <1>3, <1>4 DEF Fine, Onward

\* A decision of the engine about a case that was not acted on, or that an
\* operator reopens.
LEMMA EngineRow ==
  ASSUME NEW c, NEW d, NEW l, NEW p, NEW paid, Fine(c, l, p, paid),
         c.state \notin SettledStates \cup { "link_sent" },
         KeepsLink(c, d), d.state \in EngineStates, Explained(d)
  PROVE  Fine(d, l, p, paid) /\ Onward(c, d, p)
  <1>1. ~d.preview
    BY DEF Fine, RowFine, KeepsLink, SettledStates
  <1>2. d.state \notin SettledStates \cup
          { "link_sent", "recovered_by_link", "absent" }
    BY DEF EngineStates, TimedStates, ParkedStates, SettledStates
  <1>3. RowFine(d, p, paid)
    BY <1>1, <1>2 DEF Fine, RowFine, KeepsLink, SettledStates, Explained
  <1>4. LedgerFine(d, l, p)
    BY <1>2 DEF Fine, LedgerFine, KeepsLink
  <1>5. QED
    BY <1>3, <1>4 DEF Fine, Onward, KeepsLink

\* A failure.
LEMMA FailureKeepsFine ==
  ASSUME NEW c \in CaseRecords, NEW e \in EventRecords, NEW b \in BOOLEAN,
         NEW l, NEW p, NEW paid, Fine(c, l, p, paid)
  PROVE  LET d == HandleFailure(c, e, b)
         IN Fine(d, l, p, paid) /\ Onward(c, d, p)
  <1> DEFINE d == HandleFailure(c, e, b)
  <1> SUFFICES Fine(d, l, p, paid) /\ Onward(c, d, p)
    OBVIOUS
  <1>1. /\ d.state # "absent"
        /\ c.state # "absent" => KeepsLink(c, d)
        /\ c.state = "absent" => /\ d.link = NoLink /\ d.lstat = "none"
                                 /\ ~d.recon /\ ~d.preview
        /\ \/ d.state = c.state /\ d.reason = c.reason
           \/ d.state = "open" /\ c.state = "absent"
           \/ /\ c.state \notin FinalStates \cup AlreadyActioned
              /\ d.state \in EngineStates /\ Explained(d)
    BY FailureFields
  <1> HIDE DEF d
  <1>2. CASE c.state = "absent"
    <2>1. d.state \in EngineStates \cup { "open" } /\ Explained(d)
      BY <1>1, <1>2 DEF Explained, ParkedStates
    <2>2. QED
      BY <1>1, <1>2, <2>1, FreshRow
  <1>3. CASE c.state # "absent" /\ d.state = c.state /\ d.reason = c.reason
    BY <1>1, <1>3, QuietRow
  <1>4. CASE c.state # "absent" /\ ~(d.state = c.state /\ d.reason = c.reason)
    <2>1. c.state \notin SettledStates \cup { "link_sent" }
      BY <1>1, <1>4 DEF FinalStates, AlreadyActioned, SettledStates
    <2>2. QED
      BY <1>1, <1>4, <2>1, EngineRow
  <1>5. QED
    BY <1>2, <1>3, <1>4

\* A success event: the case settles.  A link that can still be paid gets an
\* open cancel row, because a live link of an unsettled case has none.
LEMMA SettledRow ==
  ASSUME NEW c, NEW d, NEW l, NEW m, NEW p, NEW paid, NEW s \in BOOLEAN,
         Fine(c, l, p, paid), c.state # "absent", ~IsFinal(c),
         c.link \in CancelRows, c.link <= 1, c.link \in Nat,
         d.link = c.link, d.lstat = c.lstat, d.recon = c.recon,
         d.preview => c.preview /\ ~s, d.state \in SettledStates \ { "recovery_reversed" },
         d.state = "recovered_natural" => paid = "captured",
         s => HasCancellableLink(c) /\ Ledgered(l, m, c.link, "started"),
         HasCancellableLink(c) /\ l[c.link].status = "none" => s,
         ~s => m = l
  PROVE  Fine(d, m, p, paid) /\ Onward(c, d, p)
  <1>1. c.state = "link_sent" => s
    <2>1. ASSUME c.state = "link_sent"
          PROVE  s
      <3>1. c.link = 1 /\ c.lstat = "issued"
        BY <2>1 DEF Fine, RowFine
      <3>2. l[c.link].status = "none"
        BY <2>1, <3>1 DEF Fine, LedgerFine, SettledStates
      <3>3. QED
        BY <3>1, <3>2 DEF HasCancellableLink, NoLink, CancellableLinkStatuses
    <2>2. QED
      BY <2>1
  <1>2. ~d.preview
    BY <1>1 DEF Fine, RowFine, IsFinal, FinalStates
  <1>3. s => c.link = 1
    BY DEF HasCancellableLink, NoLink
  <1>4. RowFine(d, p, paid)
    BY <1>2 DEF Fine, RowFine, SettledStates, ParkedStates
  <1>5. \A r \in CancelRows :
          m[r].status = IF s /\ r = c.link THEN "started" ELSE l[r].status
    BY DEF Ledgered
  <1>6. \A r \in CancelRows : /\ m[r].status # "none" => c.link = 1
                              /\ m[r].status = "succeeded" => p # "issued"
                              /\ m[r].status = "failed" => c.recon \/ p # "issued"
    BY <1>3, <1>5 DEF Fine, LedgerFine
  <1>7. c.link = 1 /\ p = "issued" =>
          \E r \in CancelRows : m[r].status \in { "started", "failed" }
    <2>1. SUFFICES ASSUME c.link = 1, p = "issued", ~s
                   PROVE  \E r \in CancelRows : m[r].status \in { "started", "failed" }
      BY <1>5
    <2>2. HasCancellableLink(c)
      BY <2>1 DEF Fine, RowFine, HasCancellableLink, NoLink, CancellableLinkStatuses
    <2>3. l[c.link].status # "none"
      BY <2>1, <2>2
    <2>4. c.state \in SettledStates
      BY <2>1, <2>3 DEF Fine, LedgerFine
    <2>5. QED
      BY <2>1, <2>4 DEF Fine, LedgerFine
  <1>8. LedgerFine(d, m, p)
    BY <1>6, <1>7 DEF LedgerFine
  <1>9. QED
    BY <1>4, <1>8 DEF Fine, Onward

\* What an event of the provider has already made true.
EventFine(e, c, p, paid) ==
    /\ IsCapture(e) => paid = "captured"
    /\ e.type \in LinkEvents => e.link = 1
    /\ e.type = "payment_link.cancelled" => p = "cancelled"
    /\ e.type = "payment_link.expired" => p = "expired"
    /\ e.type = "payment_link.paid" => p = "paid" /\ c.link = 1
    /\ e.type = "payment_link.partially_paid" => p \in { "paid", "partially_paid" }

\* A link event about the case's own link, or about one it never published:
\* it can only say what the provider did.
LEMMA LinkKeepsFine ==
  ASSUME NEW c \in CaseRecords, NEW e \in EventRecords, e.type \in LinkEvents,
         c.state # "absent", NEW l, NEW p, NEW paid, Fine(c, l, p, paid),
         EventFine(e, c, p, paid)
  PROVE  LET d == HandleLink(c, e)
         IN Fine(d, l, p, paid) /\ Onward(c, d, p)
  <1> DEFINE x == LinkStatusOf(e)
             t == LinkTarget(c, e)
             late == "late_link_event_requires_reconciliation"
             odd == "unexpected_link_event"
             flagged == FlaggedRow(c, TRUE, late)
             marked == MarkedRow(c, FALSE, x)
             strange == FlaggedRow(marked, TRUE, odd)
             moved == DecidedRow(marked, t.state, NoTime, t.reason)
             d == HandleLink(c, e)
             Good == Fine(d, l, p, paid) /\ Onward(c, d, p)
  <1>1. /\ IsFinal(c) => d = flagged
        /\ ~IsFinal(c) /\ t.state = "none" => d = marked
        /\ ~IsFinal(c) /\ t.state # "none" /\ CanTransition(c.state, t.state) => d = moved
        /\ ~IsFinal(c) /\ t.state # "none" /\ ~CanTransition(c.state, t.state)
             => d = strange
    BY DEF HandleLink, FlaggedRow, MarkedRow, DecidedRow
  <1>2. x \in { "paid", "partially_paid", "cancelled", "expired" }
        /\ p \notin { "issued", "created" } /\ (x = "cancelled" => p = "cancelled")
    BY DEF EventFine, LinkEvents, LinkStatusOf
  <1>3. marked \in CaseRecords
    BY <1>2, MarkedRowType DEF LinkStatuses
  <1>12. /\ flagged.link = c.link /\ flagged.lstat = c.lstat /\ flagged.recon = TRUE
         /\ flagged.preview = c.preview /\ flagged.state = c.state
         /\ flagged.reason = late
    <2> HIDE DEF late
    <2>1. QED
      BY DEF FlaggedRow, CaseRecords
  <1>4. /\ marked.link = c.link /\ marked.lstat = x /\ marked.recon = c.recon
        /\ ~marked.preview /\ marked.state = c.state /\ marked.reason = c.reason
    BY MarkFields
  <1>5. /\ t.state \in { "none", "manual_review", "recovered_by_link" }
        /\ t.reason # "none" \/ t.state = "none"
        /\ t.state = "recovered_by_link" => e.type = "payment_link.paid"
        /\ t.state = "none" => c.state = "authorized_pending_capture"
        /\ c.state = "authorized_pending_capture" /\ t.state # "none" =>
             e.type \in { "payment_link.paid", "payment_link.partially_paid" }
    <2>1. e.type \in { "payment_link.paid", "payment_link.partially_paid",
                       "payment_link.cancelled", "payment_link.expired" }
      BY DEF LinkEvents
    <2>2. QED
      BY <2>1 DEF LinkTarget, Decision
  <1>6. /\ t.state = "recovered_by_link" => p = "paid" /\ c.link = 1
        /\ c.state = "authorized_pending_capture" /\ t.state # "none" =>
             p \in { "paid", "partially_paid" }
        /\ c.state = "link_sent" => t.state # "none" /\ CanTransition(c.state, t.state)
    <2> HIDE DEF t
    <2>1. \A s \in { "manual_review", "recovered_by_link" } : CanTransition("link_sent", s)
      BY DEF CanTransition, AllowedTransitions, States
    <2>2. QED
      BY <1>5, <2>1 DEF EventFine
  <1> HIDE DEF marked, t
  <1>10. /\ strange.link = c.link /\ strange.lstat = x /\ strange.recon = TRUE
         /\ ~strange.preview /\ strange.state = c.state /\ strange.reason = odd
    <2> HIDE DEF odd
    <2>1. QED
      BY <1>3, <1>4 DEF FlaggedRow, CaseRecords
  <1>11. /\ moved.link = c.link /\ moved.lstat = x /\ moved.recon = c.recon
         /\ ~moved.preview /\ moved.state = t.state /\ moved.reason = t.reason
    BY <1>3, <1>4, RowFields DEF KeepsLink
  <1> HIDE DEF x, t, late, odd, flagged, strange, moved, d
  <1> SUFFICES Good
    BY DEF d
  <1>7. CASE IsFinal(c)
    <2>1. RowFine(d, p, paid)
      BY <1>1, <1>12, <1>7 DEF Fine, RowFine, late
    <2>2. LedgerFine(d, l, p)
      BY <1>1, <1>12, <1>7 DEF Fine, LedgerFine
    <2>3. QED
      BY <1>1, <1>12, <1>7, <2>1, <2>2 DEF Fine, Onward
  <1>8. CASE ~IsFinal(c)
    <2>1. /\ d.link = c.link /\ d.lstat = x /\ ~d.preview /\ (c.recon => d.recon)
          /\ \/ d.state = c.state /\ d.reason \in { c.reason, odd }
                /\ c.state # "link_sent"
             \/ /\ d.state = t.state /\ d.state # "none" /\ d.reason = t.reason
      BY <1>1, <1>4, <1>5, <1>6, <1>8, <1>10, <1>11
    <2>2. RowFine(d, p, paid)
      <3>1. odd # "none" /\ c.state \notin { "recovered_natural", "recovered_by_link" }
        BY <1>8 DEF odd, IsFinal, FinalStates
      <3>2. x \notin CancellableLinkStatuses
        BY <1>2 DEF CancellableLinkStatuses
      <3>3. QED
        BY <1>2, <1>5, <1>6, <2>1, <3>1, <3>2 DEF Fine, RowFine
    <2>3. LedgerFine(d, l, p)
      <3>1. d.state = c.state \/ d.state \in { "manual_review", "recovered_by_link" }
        BY <1>5, <2>1
      <3>2. c.state \in SettledStates => c.state = "authorized_pending_capture"
        BY <1>8 DEF SettledStates, IsFinal, FinalStates
      <3>3. d.state = c.state \/ c.state \notin SettledStates
              \/ p \in { "paid", "partially_paid" }
        BY <1>6, <2>1, <3>2
      <3>4. QED
        BY <1>2, <2>1, <3>1, <3>3 DEF Fine, LedgerFine
    <2>4. QED
      BY <2>1, <2>2, <2>3 DEF Fine, Onward
  <1>9. QED
    BY <1>7, <1>8

\* A reversal: a live link gets an open cancel row of its own.
LEMMA ReversedRow ==
  ASSUME NEW c, NEW d, NEW l, NEW m, NEW p, NEW paid, NEW s \in BOOLEAN,
         Fine(c, l, p, paid), c.state \notin { "absent", "recovery_reversed" },
         c.state \in States, NEW r \in CancelRows, c.link \in Nat, c.link <= 1,
         d.link = c.link, d.lstat = c.lstat, d.recon = TRUE, d.preview = c.preview,
         d.reason = c.reason,
         d.state = IF CanTransition(c.state, "recovery_reversed")
                   THEN "recovery_reversed" ELSE c.state,
         s <=> HasCancellableLink(c) /\ Claimable(l[r]),
         l[r].status \in { "none", "started", "succeeded", "failed" },
         s => Ledgered(l, m, r, "started"), ~s => m = l
  PROVE  Fine(d, m, p, paid) /\ Onward(c, d, p)
  <1>1. /\ c.state \in SettledStates \cup { "link_sent" } => d.state = "recovery_reversed"
        /\ d.state \in { c.state, "recovery_reversed" }
        /\ c.state \in SettledStates \/ d.state = c.state \/ d.state = "recovery_reversed"
    <2>1. \A x \in { "authorized_pending_capture", "recovered_natural", "link_sent" } :
            CanTransition(x, "recovery_reversed")
      BY DEF CanTransition, AllowedTransitions, States
    <2>2. QED
      BY <2>1 DEF SettledStates
  <1>2. RowFine(d, p, paid)
    <2>1. \/ d.state = c.state /\ c.state \notin { "link_sent" }
          \/ d.state = "recovery_reversed"
      BY <1>1
    <2>2. CASE d.state = "recovery_reversed"
      BY <2>2 DEF Fine, RowFine, SettledStates, ParkedStates
    <2>3. CASE d.state = c.state /\ c.state # "link_sent"
      BY <2>3 DEF Fine, RowFine
    <2>4. QED
      BY <2>1, <2>2, <2>3
  <1>3. \A q \in CancelRows :
          m[q].status = IF s /\ q = r THEN "started" ELSE l[q].status
    BY DEF Ledgered
  <1>4. s => c.link = 1 /\ d.state = "recovery_reversed"
    <2>1. s => c.link = 1 /\ c.lstat \in CancellableLinkStatuses
      BY DEF HasCancellableLink, NoLink
    <2>2. QED
      BY <1>1, <2>1 DEF Fine, RowFine
  <1>5. \A q \in CancelRows : /\ m[q].status # "none" =>
                                   /\ d.link = 1
                                   /\ \/ d.state \in SettledStates
                                      \/ /\ p \in { "paid", "partially_paid" }
                                         /\ d.state # "link_sent"
                              /\ m[q].status = "succeeded" => p # "issued"
    <2>1. \A q \in CancelRows : /\ l[q].status # "none" =>
                                     /\ d.link = 1
                                     /\ \/ d.state \in SettledStates
                                        \/ /\ p \in { "paid", "partially_paid" }
                                           /\ d.state # "link_sent"
                                /\ l[q].status = "succeeded" => p # "issued"
      BY <1>1 DEF Fine, LedgerFine, SettledStates
    <2>2. QED
      BY <1>3, <1>4, <2>1 DEF SettledStates
  <1>6. d.link = 1 /\ p = "issued" =>
          \E q \in CancelRows : m[q].status \in { "started", "failed" }
    <2>1. SUFFICES ASSUME d.link = 1, p = "issued"
                   PROVE  m[r].status \in { "started", "failed" }
      OBVIOUS
    <2>2. HasCancellableLink(c)
      BY <2>1 DEF Fine, RowFine, HasCancellableLink, NoLink, CancellableLinkStatuses
    <2>3. l[r].status # "succeeded"
      BY <2>1 DEF Fine, LedgerFine
    <2>4. s \/ l[r].status \in { "started", "failed" }
      BY <2>2, <2>3 DEF Claimable
    <2>5. QED
      BY <1>3, <2>4
  <1>7. LedgerFine(d, m, p)
    BY <1>5, <1>6 DEF LedgerFine
  <1>8. QED
    BY <1>2, <1>7 DEF Fine, Onward

\* The link is published: the case waited for consent, so no row was claimed.
LEMMA SentRow ==
  ASSUME NEW c, NEW d, NEW l, NEW p, NEW paid, Fine(c, l, p, paid),
         c.state = "consent_required", c.link = NoLink,
         d.state = "link_sent", d.link = 1, d.lstat = "issued",
         d.preview = c.preview
  PROVE  Fine(d, l, p, paid)
  <1>1. ~d.preview
    BY DEF Fine, RowFine
  <1>2. \A r \in CancelRows : l[r].status = "none"
    BY DEF Fine, LedgerFine, NoLink
  <1>3. RowFine(d, p, paid)
    BY <1>1 DEF RowFine, ParkedStates
  <1>4. LedgerFine(d, l, p)
    BY <1>2 DEF LedgerFine, SettledStates
  <1>5. QED
    BY <1>3, <1>4 DEF Fine

\* The answer to a cancel is recorded and its row closed.
LEMMA CancelledRow ==
  ASSUME NEW c, NEW d, NEW l, NEW m, NEW p, NEW paid, Fine(c, l, p, paid),
         NEW r \in CancelRows, l[r].status # "none", Ledgered(l, m, r, "succeeded"),
         NEW x, p # "issued", x \notin CancellableLinkStatuses,
         x = "cancelled" => p = "cancelled",
         d.state = c.state, d.link = c.link, d.lstat = x, ~d.preview,
         x = "cancelled" \/ (d.recon = TRUE /\ d.reason # "none"),
         x # "cancelled" \/ d.recon = c.recon \/ d.recon = FALSE
  PROVE  Fine(d, m, p, paid) /\ Onward(c, d, p)
  <1>1. /\ c.link = 1
        /\ \/ c.state \in SettledStates
           \/ p \in { "paid", "partially_paid" } /\ c.state # "link_sent"
    BY DEF Fine, LedgerFine
  <1>2. c.state \in ParkedStates => x # "cancelled"
    BY <1>1 DEF ParkedStates, SettledStates
  <1>3. c.state \notin { "link_sent", "absent" }
    BY <1>1 DEF SettledStates, Fine, RowFine, NoLink
  <1>4. RowFine(d, p, paid)
    BY <1>1, <1>2, <1>3 DEF Fine, RowFine
  <1>5. LedgerFine(d, m, p)
    BY <1>1 DEF Fine, LedgerFine, Ledgered
  <1>6. QED
    BY <1>1, <1>4, <1>5 DEF Fine, Onward

\* A cancel failed: its row stays open and the case is flagged.
LEMMA FlaggedFine ==
  ASSUME NEW c, NEW d, NEW l, NEW m, NEW p, NEW paid, Fine(c, l, p, paid),
         NEW r \in CancelRows, l[r].status # "none", Ledgered(l, m, r, "failed"),
         d.state = c.state, d.link = c.link, d.lstat = c.lstat,
         d.preview = c.preview, d.recon = TRUE, d.reason # "none"
  PROVE  Fine(d, m, p, paid) /\ Onward(c, d, p)
  <1>1. RowFine(d, p, paid)
    <2>1. c.state # "absent"
      BY DEF Fine, RowFine, LedgerFine, NoLink
    <2>2. QED
      BY <2>1 DEF Fine, RowFine
  <1>2. LedgerFine(d, m, p)
    BY DEF Fine, LedgerFine, Ledgered
  <1>3. QED
    BY <1>1, <1>2 DEF Fine, Onward

\* A draft is stored with a published link.
LEMMA DraftedRow ==
  ASSUME NEW c, NEW d, NEW l, NEW p, NEW paid, Fine(c, l, p, paid),
         c.state = "link_sent", d.state = c.state, d.link = c.link,
         d.lstat = c.lstat, d.recon = c.recon, d.reason = c.reason
  PROVE  Fine(d, l, p, paid) /\ Onward(c, d, p)
  BY DEF Fine, RowFine, LedgerFine, Onward

\* The sweep closes the row of a link that is revoked, or opens it again.
LEMMA SweptRow ==
  ASSUME NEW c, NEW l, NEW m, NEW p, NEW paid, Fine(c, l, p, paid),
         NEW r \in CancelRows, l[r].status # "none",
         \/ Ledgered(l, m, r, "started")
         \/ p = "cancelled" /\ Ledgered(l, m, r, "succeeded")
  PROVE  Fine(c, m, p, paid)
  <1>1. CASE Ledgered(l, m, r, "started")
    BY <1>1 DEF Fine, LedgerFine, Ledgered
  <1>2. CASE p = "cancelled" /\ Ledgered(l, m, r, "succeeded")
    BY <1>2 DEF Fine, LedgerFine, Ledgered
  <1>3. QED
    BY <1>1, <1>2

-----------------------------------------------------------------------------
(* What the provider may do to a link *)

\* How the status of a link moves.
Moves(p, q) ==
    \/ q = p
    \/ p = "issued" /\ q \in { "paid", "partially_paid", "expired", "cancelled" }
    \/ p = "partially_paid" /\ q = "paid"

\* No move of the provider makes a row untrue.
LEMMA ProviderKeepsFine ==
  ASSUME NEW c, NEW l, NEW p, NEW q, NEW paid, NEW pd, Fine(c, l, p, paid),
         Moves(p, q), paid = "captured" => pd = "captured"
  PROVE  Fine(c, l, q, pd)
  <1>1. RowFine(c, q, pd)
    BY DEF Fine, RowFine, Moves
  <1>2. LedgerFine(c, l, q)
    BY DEF Fine, LedgerFine, Moves
  <1>3. QED
    BY <1>1, <1>2 DEF Fine

\* Nor does the creation of the link of a case that has none.
LEMMA CreationKeepsFine ==
  ASSUME NEW c, NEW l, NEW p, NEW q, NEW paid, Fine(c, l, p, paid),
         c.link = NoLink, p # "cancelled"
  PROVE  Fine(c, l, q, paid)
  <1>1. \A r \in CancelRows : l[r].status = "none"
    BY DEF Fine, LedgerFine, NoLink
  <1>2. QED
    BY <1>1 DEF Fine, RowFine, LedgerFine, NoLink

\* What an event said stays true, whatever the provider does next.
LEMMA EventStays ==
  ASSUME NEW e, NEW c, NEW d, NEW p, NEW q, NEW paid, NEW pd,
         EventFine(e, c, p, paid), Moves(p, q), paid = "captured" => pd = "captured",
         d.link = c.link \/ c.link = NoLink
  PROVE  EventFine(e, d, q, pd)
  BY DEF EventFine, Moves, NoLink

-----------------------------------------------------------------------------
(* The invariant *)

\* The status of the one link an invoice may have.
Bond(k) == plink[k][1]

\* A link exists only when it was created, and is published as "issued".
LinksKnown ==
    \A k \in Cases, n \in Links :
        plink[k][n] # "none" => n <= created[k] /\ plink[k][n] # "created"

\* Every row and its cancel rows are true of the provider.
BooksFine == \A k \in Cases : Fine(cases[k], cancels[k], Bond(k), pay[k])

\* So is every event ever sent.
EventsFine ==
    \A e \in sent : EventFine(e, cases[e.key], Bond(e.key), pay[e.key])

\* The steps of the creation of a link.
Creating == { "create", "created", "uncreated", "supersede" }

\* What a worker in the middle of a request knows of the row c of its case,
\* of the status x of its creation row and of the status p of its link.
JobFine(j, c, x, p) ==
    /\ j.pc = "consider" => /\ j.snap.state \in WaitingStates
                            /\ ~j.stale => c.state = j.snap.state
    /\ j.pc = "commit" => /\ ~j.stale => c.state \in WaitingStates
                          /\ j.to.state \in EngineStates /\ Explained(j.to)
    /\ j.pc = "uncreated" => j.to.reason # "none"
    /\ j.pc \in Creating => x # "none"
    /\ j.pc = "created" => c.link = NoLink
    /\ j.pc = "cancelled" => /\ p # "issued"
                             /\ j.status \notin CancellableLinkStatuses
                             /\ j.status = "cancelled" => p = "cancelled"
    /\ j.pc = "sweep" /\ j.status = "cancelled" => p = "cancelled"

JobsFine ==
    \A w \in Workers :
        JobFine(job[w], cases[job[w].key], creates[job[w].key], Bond(job[w].key))

\* Whoever creates the link of an invoice is alone.
CreatorsApart ==
    \A v, w \in Workers : job[v].pc \in Creating /\ job[w].pc \in Creating
                          /\ job[v].key = job[w].key => v = w

SettleInv == LinksKnown /\ BooksFine /\ EventsFine /\ JobsFine /\ CreatorsApart

\* The worker that created the link of case k publishes it.
Published(k) ==
    /\ cases[k].link = NoLink /\ cases'[k].recon = cases[k].recon
    /\ \E w \in Workers : /\ job[w].pc = "created" /\ job[w].key = k
                          /\ job'[w].pc # "created"

\* A step leaves every row and its cancel rows true of an idle provider.
BookStep ==
    \A k \in Cases : /\ Fine(cases'[k], cancels'[k], Bond(k), pay[k])
                     /\ Onward(cases[k], cases'[k], Bond(k)) \/ Published(k)

-----------------------------------------------------------------------------
(* The steps that write the database *)

\* An invoice has no link, or link 1.
LEMMA LinkIsOne ==
  ASSUME TypeOK, CreateInv, NEW k \in Cases
  PROVE  /\ cases[k].link \in { NoLink, 1 } /\ created[k] \in { 0, 1 }
         /\ \A n \in 1 .. created[k] : n = 1 /\ created[k] = 1
  <1>1. /\ cases[k].link \in Nat /\ cases[k].link <= created[k]
        /\ created[k] \in Nat /\ created[k] <= 1
    BY CaseFacts DEF CreateInv
  <1>2. QED
    BY <1>1 DEF NoLink

\* A step that writes the row of one case, and its cancel rows.
LEMMA BookAt ==
  ASSUME TypeOK, BooksFine, NEW k \in Cases, NEW d, NEW m,
         cases' = [ cases EXCEPT ![k] = d ], cancels'[k] = m,
         \A i \in Cases \ { k } : cancels'[i] = cancels[i],
         Fine(d, m, Bond(k), pay[k]), Onward(cases[k], d, Bond(k)) \/ Published(k)
  PROVE  BookStep
  <1>1. \A i \in Cases : cases'[i] = IF i = k THEN d ELSE cases[i]
    BY DEF TypeOK
  <1>2. \A i \in Cases \ { k } : Onward(cases[i], cases[i], Bond(i))
    BY DEF Onward
  <1>3. QED
    BY <1>1, <1>2 DEF BookStep, BooksFine

\* A step that writes no row.
LEMMA NoBook ==
  ASSUME BooksFine, cases' = cases, cancels' = cancels
  PROVE  BookStep
  BY DEF BookStep, BooksFine, Onward

\* What writing one cancel row does to the ledger.
LEMMA LedgerAt ==
  ASSUME TypeOK, NEW k \in Cases, NEW r \in CancelRows
  PROVE  /\ \A n : cancels' = [ cancels EXCEPT ![k][r] = Claimed(@, n) ] =>
              /\ Ledgered(cancels[k], cancels'[k], r, "started")
              /\ \A i \in Cases \ { k } : cancels'[i] = cancels[i]
         /\ \A s : cancels' = [ cancels EXCEPT ![k][r].status = s ] =>
              /\ Ledgered(cancels[k], cancels'[k], r, s)
              /\ \A i \in Cases \ { k } : cancels'[i] = cancels[i]
  <1>0. /\ cancels \in [ Cases -> [ CancelRows -> CancelRecords ] ]
        /\ cancels[k] \in [ CancelRows -> CancelRecords ]
        /\ cancels[k][r] \in CancelRecords
    BY TypeParts DEF CancelsOK
  <1>1. ASSUME NEW x, cancels' = [ cancels EXCEPT ![k][r] = x ]
        PROVE  /\ Ledgered(cancels[k], cancels'[k], r, x.status)
               /\ \A i \in Cases \ { k } : cancels'[i] = cancels[i]
    BY <1>0, <1>1 DEF Ledgered
  <1>2. ASSUME NEW n, cancels' = [ cancels EXCEPT ![k][r] = Claimed(@, n) ]
        PROVE  /\ Ledgered(cancels[k], cancels'[k], r, "started")
               /\ \A i \in Cases \ { k } : cancels'[i] = cancels[i]
    <2> DEFINE x == Claimed(cancels[k][r], n)
    <2>1. x.status = "started"
      BY <1>0 DEF Claimed, CancelRecords
    <2>2. cancels' = [ cancels EXCEPT ![k][r] = x ]
      BY <1>2
    <2> HIDE DEF x
    <2>3. QED
      BY <1>1, <2>1, <2>2
  <1>3. ASSUME NEW s, cancels' = [ cancels EXCEPT ![k][r].status = s ]
        PROVE  /\ Ledgered(cancels[k], cancels'[k], r, s)
               /\ \A i \in Cases \ { k } : cancels'[i] = cancels[i]
    <2> DEFINE x == [ cancels[k][r] EXCEPT !.status = s ]
    <2>1. x.status = s
      BY <1>0 DEF CancelRecords
    <2>2. [ cancels[k] EXCEPT ![r].status = s ] = [ cancels[k] EXCEPT ![r] = x ]
      BY <1>0
    <2>3. cancels' = [ cancels EXCEPT ![k][r] = x ]
      BY <1>0, <1>3, <2>2
    <2> HIDE DEF x
    <2>4. QED
      BY <1>1, <2>1, <2>3
  <1>4. QED
    BY <1>2, <1>3

\* ingest of a failure.
LEMMA FailureBooks ==
  ASSUME TypeOK, BooksFine, NEW w \in Workers, NEW e \in sent, IngestFailure(w, e)
  PROVE  BookStep
  <1>1. e \in EventRecords /\ e.key \in Cases
    BY ReceiveFacts DEF IngestFailure
  <1>2. PICK b \in BOOLEAN :
          cases' = [ cases EXCEPT ![e.key] = HandleFailure(cases[e.key], e, b) ]
    BY DEF IngestFailure
  <1> DEFINE d == HandleFailure(cases[e.key], e, b)
  <1>3. Fine(d, cancels[e.key], Bond(e.key), pay[e.key])
        /\ Onward(cases[e.key], d, Bond(e.key))
    BY <1>1, CaseFacts, FailureKeepsFine DEF BooksFine
  <1>4. cases' = [ cases EXCEPT ![e.key] = d ] /\ cancels' = cancels
    BY <1>2 DEF IngestFailure
  <1> HIDE DEF d
  <1>5. QED
    BY <1>1, <1>3, <1>4, BookAt

\* ingest of a success.
LEMMA SuccessBooks ==
  ASSUME TypeOK, CreateInv, BooksFine, EventsFine, NEW w \in Workers, NEW e \in sent,
         IngestSuccess(w, e)
  PROVE  BookStep
  <1> DEFINE k == e.key
             c == cases[k]
             s == HasCancellableLink(c) /\ Claimable(cancels[k][c.link])
             d == HandleSuccess(c, e, s)
  <1>1. e \in EventRecords /\ k \in Cases
    BY ReceiveFacts DEF IngestSuccess
  <1>2. CASE cases' = cases /\ cancels' = cancels
    BY <1>2, NoBook
  <1>3. CASE ~(c.state = "absent" \/ IsFinal(c))
    <2>1. /\ cases' = [ cases EXCEPT ![k] = d ]
          /\ s => cancels' = [ cancels EXCEPT ![k][c.link] = Claimed(@, c.link) ]
          /\ ~s => cancels' = cancels
      BY <1>3 DEF IngestSuccess
    <2>2. /\ c \in CaseRecords /\ c.link \in CancelRows /\ c.link \in Nat /\ c.link <= 1
          /\ Fine(c, cancels[k], Bond(k), pay[k])
      BY <1>1, CaseFacts, LinkIsOne DEF BooksFine, NoLink
    <2>3. /\ s \in BOOLEAN /\ s => HasCancellableLink(c)
          /\ HasCancellableLink(c) /\ cancels[k][c.link].status = "none" => s
      BY DEF Claimable
    <2>4. IsCapture(e) => pay[k] = "captured"
      BY DEF EventsFine, EventFine
    <2> HIDE DEF s
    <2>5. /\ d.link = c.link /\ d.lstat = c.lstat /\ d.recon = c.recon
          /\ d.preview => c.preview /\ ~s
          /\ d.state \in SettledStates \ { "recovery_reversed" }
          /\ d.state = "recovered_natural" => pay[k] = "captured"
      <3>1. /\ d.link = c.link /\ d.lstat = c.lstat /\ d.recon = c.recon
            /\ d.preview = (c.preview /\ ~s)
            /\ d.state = IF IsCapture(e) THEN "recovered_natural"
                         ELSE "authorized_pending_capture"
        BY <2>2 DEF HandleSuccess, CaseRecords
      <3> HIDE DEF d
      <3>2. QED
        BY <2>4, <3>1 DEF SettledStates
    <2> DEFINE n == c.link
    <2>6. /\ s => Ledgered(cancels[k], cancels'[k], n, "started")
          /\ ~s => cancels'[k] = cancels[k]
          /\ \A i \in Cases \ { k } : cancels'[i] = cancels[i]
      <3>1. n \in CancelRows /\ (s => cancels' = [ cancels EXCEPT ![k][n] = Claimed(@, n) ])
        BY <2>1, <2>2
      <3> HIDE DEF n
      <3>2. QED
        BY <1>1, <2>1, <3>1, LedgerAt
    <2> HIDE DEF c, d
    <2>7. Fine(d, cancels'[k], Bond(k), pay[k]) /\ Onward(c, d, Bond(k))
      <3> DEFINE m == cancels'[k]
                 l == cancels[k]
                 p == Bond(k)
                 paid == pay[k]
      <3>1. /\ s => HasCancellableLink(c) /\ Ledgered(l, m, c.link, "started")
            /\ HasCancellableLink(c) /\ l[c.link].status = "none" => s
            /\ ~s => m = l
        BY <2>3, <2>6
      <3>2. Fine(c, l, p, paid) /\ (d.state = "recovered_natural" => paid = "captured")
        BY <2>2, <2>5
      <3> HIDE DEF m, l, p, paid
      <3>3. Fine(d, m, p, paid) /\ Onward(c, d, p)
        BY <1>3, <2>2, <2>3, <2>5, <3>1, <3>2, SettledRow
      <3>4. QED
        BY <3>3 DEF m, p, paid
    <2>8. QED
      BY <1>1, <2>1, <2>6, <2>7, BookAt DEF c
  <1>4. QED
    BY <1>2, <1>3 DEF IngestSuccess

\* ingest of a link event.
LEMMA LinkBooks ==
  ASSUME TypeOK, BooksFine, EventsFine, NEW w \in Workers, NEW e \in sent,
         IngestLink(w, e)
  PROVE  BookStep
  <1> DEFINE k == e.key
             d == HandleLink(cases[k], e)
  <1>1. e \in EventRecords /\ k \in Cases /\ e.type \in LinkEvents
    BY ReceiveFacts DEF IngestLink, Receive
  <1>2. cancels' = cancels
    BY DEF IngestLink
  <1>3. CASE cases' = cases
    BY <1>2, <1>3, NoBook
  <1>4. CASE cases[k].state # "absent" /\ cases' = [ cases EXCEPT ![k] = d ]
    <2>1. EventFine(e, cases[k], Bond(k), pay[k])
      BY DEF EventsFine
    <2>2. Fine(d, cancels[k], Bond(k), pay[k]) /\ Onward(cases[k], d, Bond(k))
      BY <1>1, <1>4, <2>1, CaseFacts, LinkKeepsFine DEF BooksFine
    <2> HIDE DEF d
    <2>3. QED
      BY <1>1, <1>2, <1>4, <2>2, BookAt
  <1>5. QED
    BY <1>3, <1>4 DEF IngestLink

\* ingest of a reversal, which silences the customer's other cases too.
LEMMA ReversalBooks ==
  ASSUME TypeOK, CreateInv, BooksFine, NEW w \in Workers, NEW e \in sent,
         IngestReversal(w, e)
  PROVE  BookStep
  <1> DEFINE k == e.key
             c == cases[k]
             s == HasCancellableLink(c) /\ Claimable(cancels[k][ReversalRow])
             O(i) == [ cases[i] EXCEPT !.optout = TRUE ]
             d == HandleReversal(c)
  <1>1. k \in Cases /\ ReversalRow \in CancelRows
    BY ReceiveFacts, IdleParts DEF IngestReversal, ReversalRow
  <1>2. CASE cases' = cases /\ cancels' = cancels
    BY <1>2, NoBook
  <1>3. CASE c.state \notin { "absent", "recovery_reversed" }
    <2>1. /\ cases'[k] = d
          /\ \A i \in Cases \ { k } : cases'[i] \in { cases[i], O(i) }
          /\ s => cancels' = [ cancels EXCEPT ![k][ReversalRow] = Claimed(@, c.link) ]
          /\ ~s => cancels' = cancels
      BY <1>1, <1>3 DEF IngestReversal
    <2>2. /\ c \in CaseRecords /\ c.link \in Nat /\ c.link <= 1 /\ c.state \in States
          /\ cancels[k][ReversalRow].status \in { "none", "started", "succeeded", "failed" }
          /\ Fine(c, cancels[k], Bond(k), pay[k])
      BY <1>1, <1>3, CaseFacts, LinkIsOne DEF BooksFine, NoLink, CaseRecords, CancelRecords
    <2>3. /\ d.link = c.link /\ d.lstat = c.lstat /\ d.recon = TRUE
          /\ d.preview = c.preview /\ d.reason = c.reason
          /\ d.state = IF CanTransition(c.state, "recovery_reversed")
                       THEN "recovery_reversed" ELSE c.state
      BY <2>2 DEF HandleReversal, CaseRecords
    <2>4. s \in BOOLEAN /\ (s <=> HasCancellableLink(c) /\ Claimable(cancels[k][ReversalRow]))
      OBVIOUS
    <2> HIDE DEF s, d
    <2>5. /\ s => Ledgered(cancels[k], cancels'[k], ReversalRow, "started")
          /\ ~s => cancels'[k] = cancels[k]
          /\ \A i \in Cases \ { k } : cancels'[i] = cancels[i]
      BY <1>1, <2>1, LedgerAt
    <2>6. Fine(d, cancels'[k], Bond(k), pay[k]) /\ Onward(c, d, Bond(k))
      <3> HIDE DEF c
      <3>1. QED
        BY <1>1, <1>3, <2>2, <2>3, <2>4, <2>5, ReversedRow
    <2>7. ASSUME NEW i \in Cases \ { k }
          PROVE  /\ Fine(cases'[i], cancels'[i], Bond(i), pay[i])
                 /\ Onward(cases[i], cases'[i], Bond(i))
      <3>1. ASSUME NEW g \in CaseRecords
            PROVE  LET h == [ g EXCEPT !.optout = TRUE ]
                   IN KeepsLink(g, h) /\ h.state = g.state /\ h.reason = g.reason
        BY DEF KeepsLink, CaseRecords
      <3>2. /\ KeepsLink(cases[i], cases'[i])
            /\ cases'[i].state = cases[i].state /\ cases'[i].reason = cases[i].reason
        <4>1. cases[i] \in CaseRecords
          BY CaseFacts
        <4>2. CASE cases'[i] = cases[i]
          BY <4>2 DEF KeepsLink
        <4>3. CASE cases'[i] = O(i)
          BY <3>1, <4>1, <4>3
        <4>4. QED
          BY <2>1, <4>2, <4>3
      <3>3. cancels'[i] = cancels[i] /\ Fine(cases[i], cancels[i], Bond(i), pay[i])
        BY <2>5 DEF BooksFine
      <3>4. QED
        BY <3>2, <3>3, QuietRow
    <2>8. QED
      BY <2>1, <2>6, <2>7 DEF BookStep
  <1>4. QED
    BY <1>2, <1>3 DEF IngestReversal

\* The commit of a tick: the row is as the tick read it, or the tick lets go.
LEMMA CommitBooks ==
  ASSUME TypeOK, BooksFine, JobsFine, NEW w \in Workers, Commit(w)
  PROVE  BookStep
  <1> DEFINE j == job[w]
             k == j.key
             c == cases[k]
             d == Committed(c, j.to)
  <1>1. j.pc = "commit" /\ k \in Cases /\ cancels' = cancels
    BY JobFacts DEF Commit
  <1>2. CASE cases' = cases
    BY <1>1, <1>2, NoBook
  <1>3. CASE ~j.stale /\ cases' = [ cases EXCEPT ![k] = d ]
    <2>1. /\ c.state \in WaitingStates /\ j.to.state \in EngineStates /\ Explained(j.to)
          /\ c \in CaseRecords /\ Fine(c, cancels[k], Bond(k), pay[k])
      BY <1>1, <1>3, CaseFacts DEF JobsFine, JobFine, BooksFine
    <2> DEFINE s == j.to.state
               u == j.to.due
               r == IF j.to.state \in ParkedStates THEN j.to.reason ELSE c.reason
    <2>2. d = DecidedRow(c, s, u, r)
      BY DEF Committed, DecidedRow
    <2>3. s \in ParkedStates => r # "none"
      BY <2>1 DEF Explained
    <2> HIDE DEF c, s, u, r
    <2>4. KeepsLink(c, DecidedRow(c, s, u, r)) /\ DecidedRow(c, s, u, r).state = s
          /\ DecidedRow(c, s, u, r).reason = r
      BY <2>1, RowFields
    <2> HIDE DEF d
    <2>5. KeepsLink(c, d) /\ d.state \in EngineStates /\ Explained(d)
      BY <2>1, <2>2, <2>3, <2>4 DEF Explained, s
    <2>6. c.state \notin SettledStates \cup { "link_sent" }
      BY <2>1 DEF WaitingStates, TimedStates, SettledStates
    <2>7. Fine(d, cancels[k], Bond(k), pay[k]) /\ Onward(c, d, Bond(k))
      BY <2>1, <2>5, <2>6, EngineRow
    <2>8. QED
      BY <1>1, <1>3, <2>7, BookAt DEF c
  <1>4. QED
    BY <1>2, <1>3 DEF Commit

\* The link could not be created.
LEMMA UncreatedBooks ==
  ASSUME TypeOK, BooksFine, JobsFine, NEW w \in Workers, RecordUncreated(w)
  PROVE  BookStep
  <1> DEFINE j == job[w]
             k == j.key
             c == cases[k]
             x == j.to.reason
             d == [ c EXCEPT !.state = "manual_review", !.reason = x ]
  <1>1. j.pc = "uncreated" /\ k \in Cases /\ cancels' = cancels
    BY JobFacts DEF RecordUncreated
  <1>2. CASE cases' = cases
    BY <1>1, <1>2, NoBook
  <1>3. CASE /\ c.state = "consent_required"
             /\ cases' = [ cases EXCEPT ![k].state = "manual_review", ![k].reason = x ]
    <2>1. x # "none" /\ c \in CaseRecords /\ Fine(c, cancels[k], Bond(k), pay[k])
      BY <1>1, CaseFacts DEF JobsFine, JobFine, BooksFine
    <2> HIDE DEF x
    <2>2. cases' = [ cases EXCEPT ![k] = d ]
      BY <1>3
    <2> HIDE DEF c
    <2>3. KeepsLink(c, d) /\ d.state = "manual_review" /\ d.reason = x
      BY <2>1 DEF KeepsLink, CaseRecords
    <2> HIDE DEF d
    <2>4. d.state \in EngineStates /\ Explained(d)
      BY <2>1, <2>3 DEF EngineStates, ParkedStates, Explained
    <2>5. c.state \notin SettledStates \cup { "link_sent" }
      BY <1>3 DEF SettledStates
    <2>6. Fine(d, cancels[k], Bond(k), pay[k]) /\ Onward(c, d, Bond(k))
      BY <2>1, <2>3, <2>4, <2>5, EngineRow
    <2>7. QED
      BY <1>1, <2>2, <2>6, BookAt DEF c
  <1>4. QED
    BY <1>2, <1>3 DEF RecordUncreated

\* The link was created; its worker is the only one that could publish it.
LEMMA CreatedBooks ==
  ASSUME TypeOK, CreateInv, BooksFine, JobsFine, NEW w \in Workers, RecordCreated(w)
  PROVE  BookStep
  <1> DEFINE j == job[w]
             k == j.key
             c == cases[k]
             n == j.link
             t == j.at
             d == LinkSent(c, n, t)
  <1>1. /\ j.pc = "created" /\ k \in Cases /\ cancels' = cancels
        /\ n \in 1 .. created[k]
    BY JobFacts DEF RecordCreated, JobOK, HoldsLink
  <1>2. CASE cases' = cases
    BY <1>1, <1>2, NoBook
  <1>3. CASE c.state = "consent_required" /\ cases' = [ cases EXCEPT ![k] = d ]
    <2>1. /\ c.link = NoLink /\ c \in CaseRecords /\ n = 1
          /\ Fine(c, cancels[k], Bond(k), pay[k])
      BY <1>1, CaseFacts, LinkIsOne DEF JobsFine, JobFine, BooksFine
    <2> HIDE DEF c, n, t
    <2>2. /\ d.state = "link_sent" /\ d.link = n /\ d.lstat = "issued"
          /\ d.recon = c.recon /\ d.preview = c.preview
      BY <2>1 DEF LinkSent, RecordContact, CaseRecords
    <2> HIDE DEF d
    <2>3. Fine(d, cancels[k], Bond(k), pay[k])
      <3> DEFINE l == cancels[k]
                 p == Bond(k)
                 paid == pay[k]
      <3>1. Fine(c, l, p, paid)
        BY <2>1
      <3> HIDE DEF l, p, paid
      <3>2. Fine(d, l, p, paid)
        BY <1>3, <2>1, <2>2, <3>1, SentRow
      <3>3. QED
        BY <3>2 DEF l, p, paid
    <2>4. job'[w].pc = "idle"
      <3>1. job' = [ Saved({ k }) EXCEPT ![w] = IdleJob ]
        BY <1>3 DEF RecordCreated, c
      <3>2. QED
        BY <3>1, SavedFacts, IdleJobOK
    <2>5. cases'[k] = d
      BY <1>1, <1>3 DEF TypeOK
    <2>6. Published(k)
      BY <1>1, <2>1, <2>2, <2>4, <2>5 DEF Published, c
    <2>7. QED
      BY <1>1, <1>3, <2>3, <2>6, BookAt
  <1>4. QED
    BY <1>2, <1>3 DEF RecordCreated

\* A cancel was answered.
LEMMA CancelledBooks ==
  ASSUME TypeOK, RevokersHoldRows, BooksFine, JobsFine, NEW w \in Workers,
         RecordCancelled(w)
  PROVE  BookStep
  <1> DEFINE j == job[w]
             k == j.key
             r == j.row
             c == cases[k]
             x == j.status
             d == CancelRecorded(c, x)
  <1>1. /\ j.pc = "cancelled" /\ k \in Cases /\ r \in CancelRows
        /\ cancels' = [ cancels EXCEPT ![k][r].status = "succeeded" ]
        /\ cases' = [ cases EXCEPT ![k] = d ]
    BY JobFacts DEF RecordCancelled
  <1>2. cancels[k][r].status # "none"
    BY <1>1 DEF RevokersHoldRows, RowClaimed, RevokingSteps
  <1>3. /\ Bond(k) # "issued" /\ x \notin CancellableLinkStatuses
        /\ x = "cancelled" => Bond(k) = "cancelled"
    BY <1>1 DEF JobsFine, JobFine
  <1>4. c \in CaseRecords /\ Fine(c, cancels[k], Bond(k), pay[k])
    BY <1>1, CaseFacts DEF BooksFine
  <1>5. /\ Ledgered(cancels[k], cancels'[k], r, "succeeded")
        /\ \A i \in Cases \ { k } : cancels'[i] = cancels[i]
    BY <1>1, LedgerAt
  <1> HIDE DEF c, x
  <1>6. /\ d.state = c.state /\ d.link = c.link /\ d.lstat = x /\ ~d.preview
        /\ x = "cancelled" \/ (d.recon = TRUE /\ d.reason # "none")
        /\ x # "cancelled" \/ d.recon = c.recon \/ d.recon = FALSE
    BY <1>4 DEF CancelRecorded, CaseRecords
  <1> HIDE DEF d
  <1>7. Fine(d, cancels'[k], Bond(k), pay[k]) /\ Onward(c, d, Bond(k))
    <2> DEFINE l == cancels[k]
               m == cancels'[k]
               p == Bond(k)
               paid == pay[k]
    <2>1. /\ r \in CancelRows /\ l[r].status # "none" /\ Fine(c, l, p, paid)
          /\ Ledgered(l, m, r, "succeeded") /\ p # "issued"
          /\ x \notin CancellableLinkStatuses /\ (x = "cancelled" => p = "cancelled")
      BY <1>1, <1>2, <1>3, <1>4, <1>5
    <2> HIDE DEF l, m, p, paid
    <2>2. Fine(d, m, p, paid) /\ Onward(c, d, p)
      BY <1>6, <2>1, CancelledRow
    <2>3. QED
      BY <2>2 DEF m, p, paid
  <1>8. QED
    BY <1>1, <1>5, <1>7, BookAt DEF c

\* A cancel failed.
LEMMA UncancelledBooks ==
  ASSUME TypeOK, RevokersHoldRows, BooksFine, NEW w \in Workers, RecordUncancelled(w)
  PROVE  BookStep
  <1> DEFINE j == job[w]
             k == j.key
             r == j.row
             c == cases[k]
             x == "payment_link_cancel_failed"
             d == [ c EXCEPT !.recon = TRUE, !.reason = x ]
  <1>1. /\ j.pc = "uncancelled" /\ k \in Cases /\ r \in CancelRows
        /\ cancels' = [ cancels EXCEPT ![k][r].status = "failed" ]
        /\ cases' = [ cases EXCEPT ![k].recon = TRUE, ![k].reason = x ]
    BY JobFacts DEF RecordUncancelled
  <1>2. cancels[k][r].status # "none"
    BY <1>1 DEF RevokersHoldRows, RowClaimed, RevokingSteps
  <1>3. x # "none" /\ c \in CaseRecords /\ Fine(c, cancels[k], Bond(k), pay[k])
    BY <1>1, CaseFacts DEF BooksFine
  <1>4. /\ Ledgered(cancels[k], cancels'[k], r, "failed")
        /\ \A i \in Cases \ { k } : cancels'[i] = cancels[i]
    BY <1>1, LedgerAt
  <1> HIDE DEF x
  <1>5. cases' = [ cases EXCEPT ![k] = d ]
    BY <1>1
  <1> HIDE DEF c
  <1>6. /\ d.state = c.state /\ d.link = c.link /\ d.lstat = c.lstat
        /\ d.preview = c.preview /\ d.recon = TRUE /\ d.reason = x
    BY <1>3 DEF CaseRecords
  <1> HIDE DEF d
  <1>7. Fine(d, cancels'[k], Bond(k), pay[k]) /\ Onward(c, d, Bond(k))
    <2> DEFINE l == cancels[k]
               m == cancels'[k]
               p == Bond(k)
               paid == pay[k]
    <2>1. /\ r \in CancelRows /\ l[r].status # "none" /\ Fine(c, l, p, paid)
          /\ Ledgered(l, m, r, "failed") /\ x # "none"
      BY <1>1, <1>2, <1>3, <1>4
    <2> HIDE DEF l, m, p, paid
    <2>2. Fine(d, m, p, paid) /\ Onward(c, d, p)
      BY <1>6, <2>1, FlaggedFine
    <2>3. QED
      BY <2>2 DEF m, p, paid
  <1>8. QED
    BY <1>1, <1>4, <1>5, <1>7, BookAt DEF c

\* The sweep writes cancel rows only.
LEMMA SweepBooks ==
  ASSUME TypeOK, RevokersHoldRows, BooksFine, JobsFine, NEW w \in Workers, Sweep(w)
  PROVE  BookStep
  <1> DEFINE j == job[w]
             k == j.key
             r == j.row
             n == j.link
  <1>1. j.pc = "sweep" /\ k \in Cases /\ r \in CancelRows /\ cases' = cases
    BY JobFacts DEF Sweep
  <1>2. cancels[k][r].status # "none"
    BY <1>1 DEF RevokersHoldRows, RowClaimed, RevokingSteps
  <1>3. j.status = "cancelled" => Bond(k) = "cancelled"
    BY <1>1 DEF JobsFine, JobFine
  <1>4. \/ cancels' = cancels
        \/ cancels' = [ cancels EXCEPT ![k][r] = Claimed(@, n) ]
        \/ /\ j.status = "cancelled"
           /\ cancels' = [ cancels EXCEPT ![k][r].status = "succeeded" ]
    BY DEF Sweep
  <1>5. CASE cancels' = cancels
    BY <1>1, <1>5, NoBook
  <1>6. CASE cancels' # cancels
    <2>1. /\ \/ Ledgered(cancels[k], cancels'[k], r, "started")
             \/ Bond(k) = "cancelled" /\ Ledgered(cancels[k], cancels'[k], r, "succeeded")
          /\ \A i \in Cases \ { k } : cancels'[i] = cancels[i]
      <3> HIDE DEF n, r, k
      <3>1. CASE cancels' = [ cancels EXCEPT ![k][r] = Claimed(@, n) ]
        BY <1>1, <3>1, LedgerAt
      <3>2. CASE /\ j.status = "cancelled"
                 /\ cancels' = [ cancels EXCEPT ![k][r].status = "succeeded" ]
        BY <1>1, <1>3, <3>2, LedgerAt
      <3>3. QED
        BY <1>4, <1>6, <3>1, <3>2
    <2>2. Fine(cases[k], cancels[k], Bond(k), pay[k])
      BY <1>1 DEF BooksFine
    <2>3. Fine(cases[k], cancels'[k], Bond(k), pay[k])
      BY <1>1, <1>2, <2>1, <2>2, SweptRow
    <2>4. Onward(cases[k], cases[k], Bond(k)) /\ cases' = [ cases EXCEPT ![k] = cases[k] ]
      BY <1>1 DEF Onward, TypeOK
    <2>5. QED
      BY <1>1, <2>1, <2>3, <2>4, BookAt
  <1>7. QED
    BY <1>5, <1>6

\* A draft is stored.
LEMMA PreviewBooks ==
  ASSUME TypeOK, BooksFine, NEW w \in Workers, PreviewSave(w)
  PROVE  BookStep
  <1> DEFINE k == job[w].key
             c == cases[k]
             d == [ c EXCEPT !.preview = TRUE ]
  <1>1. k \in Cases /\ cancels' = cancels
    BY JobFacts DEF PreviewSave
  <1>2. CASE cases' = cases
    BY <1>1, <1>2, NoBook
  <1>3. CASE c.state = "link_sent" /\ cases' = [ cases EXCEPT ![k].preview = TRUE ]
    <2>1. c \in CaseRecords /\ Fine(c, cancels[k], Bond(k), pay[k])
      BY <1>1, CaseFacts DEF BooksFine
    <2>2. cases' = [ cases EXCEPT ![k] = d ]
      BY <1>3
    <2> HIDE DEF c
    <2>3. /\ d.state = c.state /\ d.link = c.link /\ d.lstat = c.lstat
          /\ d.recon = c.recon /\ d.reason = c.reason
      BY <2>1 DEF CaseRecords
    <2> HIDE DEF d
    <2>4. Fine(d, cancels[k], Bond(k), pay[k]) /\ Onward(c, d, Bond(k))
      BY <1>3, <2>1, <2>3, DraftedRow
    <2>5. QED
      BY <1>1, <2>2, <2>4, BookAt DEF c
  <1>4. QED
    BY <1>2, <1>3 DEF PreviewSave

\* reopen asks the engine again and explains a case it parks.
LEMMA ReopenedFields ==
  ASSUME NEW c \in CaseRecords, c.state = "manual_review",
         NEW class \in FailureClasses \cup { "none" }, NEW t \in Time, NEW b \in BOOLEAN
  PROVE  LET h == Reopened(c, class, t, b)
         IN KeepsLink(c, h) /\ h.state \in EngineStates /\ Explained(h)
  <1> DEFINE h == Reopened(c, class, t, b)
             y == IF class # "none" THEN class ELSE c.class
             g == [ c EXCEPT !.class = y, !.attempts = 0 ]
             e == Decide(g, t, b)
             s == e.state
             u == e.due
             r == IF e.state \in ParkedStates THEN e.reason ELSE "none"
             o == DecidedRow(g, s, u, r)
  <1>1. y \in FailureClasses \cup { "none" }
    BY DEF CaseRecords
  <1>2. h = [ g EXCEPT !.state = IF CanTransition(g.state, s) THEN s ELSE g.state,
                       !.reason = r, !.due = u ]
    BY DEF Reopened
  <1> HIDE DEF y
  <1>3. g \in CaseRecords /\ g.state = "manual_review" /\ KeepsLink(c, g)
    BY <1>1 DEF CaseRecords, KeepsLink
  <1> HIDE DEF g
  <1>4. s \in EngineStates /\ Explained(e)
    BY DecideExplains
  <1>5. s \in ParkedStates => r # "none"
    BY <1>4 DEF Explained
  <1> HIDE DEF e, s, u, r
  <1>6. CanTransition("manual_review", s)
    BY <1>4, TableFacts DEF EngineStates
  <1>7. h = o
    BY <1>2, <1>3, <1>6 DEF DecidedRow
  <1>8. KeepsLink(g, DecidedRow(g, s, u, r)) /\ DecidedRow(g, s, u, r).state = s
        /\ DecidedRow(g, s, u, r).reason = r
    BY <1>3, RowFields
  <1> HIDE DEF h
  <1>9. KeepsLink(c, h) /\ h.state = s /\ h.reason = r
    BY <1>3, <1>7, <1>8 DEF KeepsLink
  <1>10. QED
    BY <1>4, <1>5, <1>9 DEF Explained, h

\* An operator reopens a case.
LEMMA ReopenBooks ==
  ASSUME TypeOK, BooksFine, NEW k \in Cases, NEW class \in FailureClasses \cup { "none" },
         Reopen(k, class)
  PROVE  BookStep
  <1> DEFINE c == cases[k]
  <1>1. PICK b \in BOOLEAN : cases' = [ cases EXCEPT ![k] = Reopened(c, class, now, b) ]
    BY DEF Reopen
  <1> DEFINE d == Reopened(c, class, now, b)
  <1>2. c.state = "manual_review" /\ cancels' = cancels
    BY DEF Reopen
  <1>3. c \in CaseRecords /\ now \in Time /\ Fine(c, cancels[k], Bond(k), pay[k])
    BY CaseFacts DEF BooksFine, TypeOK
  <1> HIDE DEF c
  <1>4. KeepsLink(c, d) /\ d.state \in EngineStates /\ Explained(d)
    BY <1>2, <1>3, ReopenedFields
  <1>5. cases' = [ cases EXCEPT ![k] = d ]
    BY <1>1
  <1> HIDE DEF d
  <1>6. c.state \notin SettledStates \cup { "link_sent" }
    BY <1>2 DEF SettledStates
  <1>7. Fine(d, cancels[k], Bond(k), pay[k]) /\ Onward(c, d, Bond(k))
    BY <1>3, <1>4, <1>6, EngineRow
  <1>8. QED
    BY <1>2, <1>5, <1>7, BookAt DEF c

-----------------------------------------------------------------------------
(* What a worker knows outlives the steps of the others *)

\* The job i is j, which may have learned that its row was saved since, and
\* has learned it when the row went from c to a row d in another state.
Kept(j, i, c, d) ==
    /\ i.pc = j.pc /\ i.key = j.key /\ i.snap = j.snap /\ i.to = j.to
    /\ i.row = j.row /\ i.status = j.status
    /\ j.stale => i.stale
    /\ j.pc \in { "consider", "commit" } => i.stale \/ d.state = c.state

\* The job of worker v is kept.
JobKept(v) == Kept(job[v], job'[v], cases[job[v].key], cases'[job[v].key])

\* A worker in none of the delicate steps claims nothing.
LEMMA QuietJob ==
  ASSUME NEW j, NEW c, NEW x, NEW p,
         j.pc \in { "idle", "claim", "cancel", "uncancelled", "draft" }
  PROVE  JobFine(j, c, x, p)
  BY DEF JobFine, Creating

\* What a kept job claims stays true.
LEMMA JobStays ==
  ASSUME NEW j, NEW i, NEW c, NEW d, NEW x, NEW y, NEW p, NEW q,
         JobFine(j, c, x, p), Kept(j, i, c, d), Moves(p, q),
         y = "none" => x = "none", j.pc = "created" => d.link = c.link
  PROVE  JobFine(i, d, y, q)
  <1>1. CASE j.pc \in { "consider", "commit" }
    BY <1>1 DEF JobFine, Kept, Creating
  <1>2. CASE j.pc \in Creating
    BY <1>2 DEF JobFine, Kept, Creating
  <1>3. CASE j.pc \in { "cancelled", "sweep" }
    BY <1>3 DEF JobFine, Kept, Creating, Moves
  <1>4. CASE j.pc \notin { "consider", "commit", "cancelled", "sweep" } \cup Creating
    BY <1>4 DEF JobFine, Kept, Creating
  <1>5. QED
    BY <1>1, <1>2, <1>3, <1>4

\* Saving rows keeps every job, when no other row changes its state.
LEMMA SavedKeeps ==
  ASSUME TypeOK, NEW S, \A k \in Cases \ S : cases'[k].state = cases[k].state
  PROVE  \A v \in Workers :
            Kept(job[v], Saved(S)[v], cases[job[v].key], cases'[job[v].key])
  <1> SUFFICES ASSUME NEW v \in Workers
               PROVE  Kept(job[v], Saved(S)[v], cases[job[v].key], cases'[job[v].key])
    OBVIOUS
  <1> DEFINE j == job[v]
             i == Saved(S)[v]
             m == [ j EXCEPT !.stale = TRUE ]
             s == j.key \in S /\ j.pc \in { "consider", "commit" }
  <1>1. j \in Jobs /\ j.stale \in BOOLEAN /\ (j.pc # "idle" => j.key \in Cases)
    BY JobFacts
  <1>2. i = IF s THEN m ELSE j
    BY DEF Saved
  <1>3. /\ m.pc = j.pc /\ m.key = j.key /\ m.snap = j.snap /\ m.to = j.to
        /\ m.row = j.row /\ m.status = j.status /\ m.stale = TRUE
    BY <1>1 DEF Jobs
  <1>4. j.pc \in { "consider", "commit" } =>
          s \/ cases'[j.key].state = cases[j.key].state
    BY <1>1
  <1>5. s \in BOOLEAN
    OBVIOUS
  <1> HIDE DEF j, i, m, s
  <1>6. Kept(j, i, cases[j.key], cases'[j.key])
    BY <1>2, <1>3, <1>4 DEF Kept
  <1>7. QED
    BY <1>6 DEF i, j

\* A step that leaves the job of worker v and the rows alone keeps the job.
LEMMA SameKeeps ==
  ASSUME NEW v \in Workers, job'[v] = job[v], cases' = cases
  PROVE  JobKept(v)
  BY DEF JobKept, Kept

\* One row saved, one worker's job rewritten: the others' jobs are kept.
LEMMA WriteKeeps ==
  ASSUME TypeOK, NEW w \in Workers, NEW k \in Cases, NEW d, NEW i,
         cases' = [ cases EXCEPT ![k] = d ],
         job' = Saved({ k }) \/ job' = [ Saved({ k }) EXCEPT ![w] = i ]
  PROVE  \A v \in Workers \ { w } : JobKept(v)
  <1>1. \A x \in Cases \ { k } : cases'[x].state = cases[x].state
    BY DEF TypeOK
  <1>2. \A v \in Workers : Kept(job[v], Saved({ k })[v], cases[job[v].key], cases'[job[v].key])
    BY <1>1, SavedKeeps
  <1>3. Saved({ k }) \in [ Workers -> Jobs ]
    BY SavedFacts
  <1>4. \A v \in Workers \ { w } : job'[v] = Saved({ k })[v]
    BY <1>3
  <1>5. QED
    BY <1>2, <1>4 DEF JobKept

\* Nothing saved, one worker's job rewritten: the others' jobs are kept.
LEMMA MoveKeeps ==
  ASSUME TypeOK, NEW w \in Workers, NEW i, cases' = cases,
         job' = job \/ job' = [ job EXCEPT ![w] = i ]
  PROVE  \A v \in Workers \ { w } : JobKept(v)
  BY SameKeeps DEF TypeOK

\* A step of work keeps the jobs of the other workers.
LEMMA WorkKeepsJobs ==
  ASSUME TypeOK, NEW w \in Workers, Work(w)
  PROVE  \A v \in Workers \ { w } : JobKept(v)
  <1> DEFINE k == job[w].key
             Good == \A v \in Workers \ { w } : JobKept(v)
  <1>0. job \in [ Workers -> Jobs ] /\ (job[w].pc # "idle" => k \in Cases)
    BY JobFacts DEF TypeOK
  <1> SUFFICES Good
    OBVIOUS
  <1> HIDE DEF Good
  <1>1. ASSUME NEW d, NEW i, k \in Cases, cases' = [ cases EXCEPT ![k] = d ],
               job' = [ Saved({ k }) EXCEPT ![w] = i ]
        PROVE  Good
    BY <1>1, WriteKeeps DEF Good
  <1>2. ASSUME NEW i, cases' = cases, job' = [ job EXCEPT ![w] = i ]
        PROVE  Good
    BY <1>2, MoveKeeps DEF Good
  <1>3. ASSUME cases' = cases, \A v \in Workers \ { w } : job'[v] = job[v]
        PROVE  Good
    BY <1>3, SameKeeps DEF Good
  <1>4. CASE Consider(w)
    BY <1>2, <1>4 DEF Consider, db
  <1>5. CASE Commit(w)
    BY <1>0, <1>1, <1>2, <1>5 DEF Commit
  <1>6. CASE ClaimCreate(w) \/ ProviderCreates(w) \/ ProviderRefuses(w) \/ CancelCall(w)
    <2>1. cases' = cases
      BY <1>6 DEF ClaimCreate, ProviderCreates, ProviderRefuses, CancelCall, db
    <2>2. \A v \in Workers \ { w } : job'[v] = job[v]
      BY <1>0, <1>6 DEF ClaimCreate, ProviderCreates, ProviderRefuses, CancelCall
    <2>3. QED
      BY <1>3, <2>1, <2>2
  <1>7. CASE RecordUncreated(w)
    <2> DEFINE x == job[w].to.reason
               d == [ cases[k] EXCEPT !.state = "manual_review", !.reason = x ]
    <2>1. k \in Cases
      BY <1>0, <1>7 DEF RecordUncreated
    <2>2. CASE cases[k].state = "consent_required"
      <3>1. /\ cases' = [ cases EXCEPT ![k].state = "manual_review", ![k].reason = x ]
            /\ job' = [ Saved({ k }) EXCEPT ![w] = IdleJob ]
        BY <1>7, <2>2 DEF RecordUncreated
      <3> HIDE DEF x
      <3>2. cases' = [ cases EXCEPT ![k] = d ]
        BY <3>1
      <3>3. QED
        BY <1>1, <2>1, <3>1, <3>2
    <2>3. CASE cases[k].state # "consent_required"
      BY <1>2, <1>7, <2>3 DEF RecordUncreated
    <2>4. QED
      BY <2>2, <2>3
  <1>8. CASE RecordCreated(w)
    <2>1. k \in Cases
      BY <1>0, <1>8 DEF RecordCreated
    <2>2. CASE cases[k].state = "consent_required"
      BY <1>1, <1>8, <2>1, <2>2 DEF RecordCreated
    <2>3. CASE cases[k].state # "consent_required"
      BY <1>2, <1>8, <2>3 DEF RecordCreated
    <2>4. QED
      BY <2>2, <2>3
  <1>9. CASE Supersede(w)
    BY <1>2, <1>9 DEF Supersede
  <1>10. CASE RecordCancelled(w)
    BY <1>0, <1>1, <1>10 DEF RecordCancelled
  <1>11. CASE RecordUncancelled(w)
    <2> DEFINE d == [ cases[k] EXCEPT !.recon = TRUE,
                                      !.reason = "payment_link_cancel_failed" ]
    <2>1. /\ k \in Cases /\ cases' = [ cases EXCEPT ![k] = d ]
          /\ job' = [ Saved({ k }) EXCEPT ![w] = IdleJob ]
      BY <1>0, <1>11 DEF RecordUncancelled
    <2>2. QED
      BY <1>1, <2>1
  <1>12. CASE Sweep(w)
    BY <1>2, <1>12 DEF Sweep
  <1>13. CASE PreviewSave(w)
    <2> DEFINE d == [ cases[k] EXCEPT !.preview = TRUE ]
    <2>1. k \in Cases /\ \/ /\ cases' = [ cases EXCEPT ![k] = d ]
                            /\ job' = [ Saved({ k }) EXCEPT ![w] = IdleJob ]
                         \/ cases' = cases /\ job' = [ job EXCEPT ![w] = IdleJob ]
      BY <1>0, <1>13 DEF PreviewSave
    <2>2. QED
      BY <1>1, <1>2, <2>1
  <1>14. QED
    BY <1>4, <1>5, <1>6, <1>7, <1>8, <1>9, <1>10, <1>11, <1>12, <1>13 DEF Work, Good

\* So does the start of a request.
LEMMA StartKeepsJobs ==
  ASSUME TypeOK, NEW w \in Workers, Start(w)
  PROVE  \A v \in Workers \ { w } : JobKept(v)
  <1> DEFINE Good == \A v \in Workers \ { w } : JobKept(v)
  <1>0. job \in [ Workers -> Jobs ]
    BY DEF TypeOK
  <1> HIDE DEF Good
  <1>1. ASSUME NEW k \in Cases, NEW d, NEW i, cases' = [ cases EXCEPT ![k] = d ],
               job' = Saved({ k }) \/ job' = [ Saved({ k }) EXCEPT ![w] = i ]
        PROVE  Good
    BY <1>1, WriteKeeps DEF Good
  <1>2. ASSUME NEW i, cases' = cases, job' = job \/ job' = [ job EXCEPT ![w] = i ]
        PROVE  Good
    BY <1>2, MoveKeeps DEF Good
  <1>3. ASSUME NEW e \in sent, IngestFailure(w, e)
        PROVE  Good
    <2>1. e \in EventRecords /\ e.key \in Cases
      BY <1>3, ReceiveFacts DEF IngestFailure
    <2>2. CASE IsFinal(cases[e.key])
      <3>1. job' = Saved({})
        BY <1>3, <2>2 DEF IngestFailure
      <3>2. \A k \in Cases : cases'[k].state = cases[k].state
        <4>1. PICK b \in BOOLEAN :
                cases' = [ cases EXCEPT ![e.key] = HandleFailure(cases[e.key], e, b) ]
          BY <1>3 DEF IngestFailure
        <4>2. HandleFailure(cases[e.key], e, b).state = cases[e.key].state
          BY <2>1, <2>2, CaseFacts, FailureEffect
        <4>3. QED
          BY <4>1, <4>2 DEF TypeOK
      <3>3. \A v \in Workers :
              Kept(job[v], Saved({})[v], cases[job[v].key], cases'[job[v].key])
        BY <3>2, SavedKeeps
      <3>4. QED
        BY <3>1, <3>3 DEF Good, JobKept
    <2>3. CASE ~IsFinal(cases[e.key])
      BY <1>1, <1>3, <2>1, <2>3 DEF IngestFailure
    <2>4. QED
      BY <2>2, <2>3
  <1>4. ASSUME NEW e \in sent, IngestSuccess(w, e)
        PROVE  Good
    <2> DEFINE k == e.key
               n == cases[k].link
               s == HasCancellableLink(cases[k]) /\ Claimable(cancels[k][n])
               d == HandleSuccess(cases[k], e, s)
    <2>1. k \in Cases
      BY <1>4, ReceiveFacts DEF IngestSuccess
    <2>2. \/ cases' = cases /\ job' = job
          \/ /\ cases' = [ cases EXCEPT ![k] = d ]
             /\ \/ job' = [ Saved({ k }) EXCEPT ![w] = CancelJob(k, n, n) ]
                \/ job' = Saved({ k })
      BY <1>4 DEF IngestSuccess
    <2> HIDE DEF d
    <2>3. QED
      BY <1>1, <1>2, <2>1, <2>2
  <1>5. ASSUME NEW e \in sent, IngestLink(w, e)
        PROVE  Good
    <2>1. e.key \in Cases
      BY <1>5, ReceiveFacts DEF IngestLink
    <2>2. \/ cases' = cases /\ job' = job
          \/ /\ cases' = [ cases EXCEPT ![e.key] = HandleLink(cases[e.key], e) ]
             /\ job' = Saved({ e.key })
      BY <1>5 DEF IngestLink
    <2>3. QED
      BY <1>1, <1>2, <2>1, <2>2
  <1>6. ASSUME NEW e \in sent, IngestReversal(w, e)
        PROVE  Good
    <2> DEFINE k == e.key
               c == cases[k]
               S == { j \in Siblings(k) : ~cases[j].optout } \cup { k }
    <2>1. CASE cases' = cases /\ job' = job
      BY <1>2, <2>1
    <2>2. CASE c.state \notin { "absent", "recovery_reversed" }
      <3>1. \A x \in Cases \ S : cases'[x].state = cases[x].state
        BY <1>6, <2>2 DEF IngestReversal
      <3>2. \A v \in Workers \ { w } : job'[v] = Saved(S)[v]
        <4>1. \/ job' = [ Saved(S) EXCEPT ![w] = CancelJob(k, ReversalRow, c.link) ]
              \/ job' = Saved(S)
          BY <1>6, <2>2 DEF IngestReversal
        <4>2. Saved(S) \in [ Workers -> Jobs ]
          BY SavedFacts
        <4> HIDE DEF S
        <4>3. QED
          BY <4>1, <4>2
      <3> HIDE DEF S
      <3>3. \A v \in Workers :
              Kept(job[v], Saved(S)[v], cases[job[v].key], cases'[job[v].key])
        BY <3>1, SavedKeeps
      <3>4. QED
        BY <3>2, <3>3 DEF Good, JobKept
    <2>3. QED
      BY <1>6, <2>1, <2>2 DEF IngestReversal
  <1>7. ASSUME NEW k \in Cases, Pick(w, k) \/ PreviewRead(w, k)
        PROVE  Good
    BY <1>2, <1>7 DEF Pick, PreviewRead, db
  <1>8. ASSUME NEW k \in Cases, NEW r \in CancelRows, SweepRead(w, k, r)
        PROVE  Good
    BY <1>2, <1>8 DEF SweepRead, db
  <1>9. QED
    BY <1>3, <1>4, <1>5, <1>6, <1>7, <1>8 DEF Start, Ingest, Good

-----------------------------------------------------------------------------
(* What the worker that moves knows afterwards *)

\* The job of worker w is true of the next state.
JobFineNext(w) ==
    JobFine(job'[w], cases'[job'[w].key], creates'[job'[w].key], plink'[job'[w].key][1])

\* A worker that creates a link was creating it, or has just claimed it.
Claims(w) ==
    job'[w].pc \in Creating =>
        /\ job'[w].key = job[w].key
        /\ job[w].pc \in Creating \/ creates[job[w].key] = "none"

\* A tick decides on states of the engine, and explains what it parks.
LEMMA OutcomesExplained ==
  ASSUME NEW c, NEW t, NEW b
  PROVE  \A d \in CooldownOutcomes(t) \cup { RetryOutcome(c, b) }
                  \cup (IF b # "none" THEN { Refusal(b) } ELSE {}) :
            d.state \in EngineStates /\ Explained(d)
  <1>1. \A u : /\ Decision("cooldown", "none", u).state = "cooldown"
               /\ Decision("retry_scheduled", "none", u).state = "retry_scheduled"
    BY DEF Decision
  <1>2. \A d \in CooldownOutcomes(t) : d.state \in { "cooldown", "retry_scheduled" }
    BY <1>1 DEF CooldownOutcomes
  <1>3. b # "none" => Refusal(b).state \in ParkedStates /\ Refusal(b).reason # "none"
    BY DEF Refusal, Decision, ParkedStates
  <1>4. LET d == RetryOutcome(c, b)
        IN \/ d.state = "manual_review" /\ d.reason # "none"
           \/ d.state = "consent_required"
           \/ b # "none" /\ d = Refusal(b)
    BY DEF RetryOutcome, Decision
  <1>5. QED
    BY <1>2, <1>3, <1>4 DEF EngineStates, TimedStates, ParkedStates, Explained

\* A worker left in a quiet step.
LEMMA QuietWorker ==
  ASSUME NEW w \in Workers,
         job'[w].pc \in { "idle", "claim", "cancel", "uncancelled", "draft" }
  PROVE  JobFineNext(w) /\ Claims(w)
  BY QuietJob DEF JobFineNext, Claims, Creating

\* The tick looked at a case.
LEMMA ConsiderJob ==
  ASSUME TypeOK, JobsFine, NEW w \in Workers, Consider(w)
  PROVE  JobFineNext(w) /\ Claims(w)
  <1> DEFINE j == job[w]
             blocked == MayContact(j.key, j.snap, j.at)
             P(d) == [ IdleJob EXCEPT !.pc = "commit", !.key = j.key,
                         !.stale = j.stale, !.at = j.at, !.to = d ]
             C == [ IdleJob EXCEPT !.pc = "claim", !.key = j.key, !.at = j.at,
                                   !.amount = j.snap.amount ]
             D == CooldownOutcomes(j.at) \cup { RetryOutcome(j.snap, blocked) }
                  \cup (IF blocked # "none" THEN { Refusal(blocked) } ELSE {})
  <1>1. /\ \A d : /\ P(d).pc = "commit" /\ P(d).key = j.key
                  /\ P(d).stale = j.stale /\ P(d).to = d
        /\ C.pc = "claim"
    BY DEF IdleJob
  <1>2. \A d \in D : d.state \in EngineStates /\ Explained(d)
    BY OutcomesExplained
  <1>3. j.pc = "consider" /\ cases' = cases
    BY DEF Consider, db
  <1>4. ~j.stale => cases[j.key].state \in WaitingStates
    BY <1>3 DEF JobsFine, JobFine
  <1> HIDE DEF blocked
  <1>5. (\E d \in D : job' = [ job EXCEPT ![w] = P(d) ]) \/ job' = [ job EXCEPT ![w] = C ]
    BY DEF Consider, blocked
  <1> HIDE DEF P, C, D
  <1>6. (\E d \in D : job'[w] = P(d)) \/ job'[w] = C
    BY <1>5 DEF TypeOK
  <1>7. CASE job'[w] = C
    BY <1>1, <1>7, QuietWorker
  <1>8. ASSUME NEW d \in D, job'[w] = P(d)
        PROVE  JobFineNext(w) /\ Claims(w)
    <2> DEFINE i == job'[w]
    <2>1. i.pc = "commit" /\ i.key = j.key /\ i.stale = j.stale /\ i.to = d
      BY <1>1, <1>8
    <2> HIDE DEF i, j
    <2>2. JobFine(i, cases'[i.key], creates'[i.key], plink'[i.key][1])
      BY <1>2, <1>3, <1>4, <2>1 DEF JobFine, Creating
    <2>3. QED
      BY <2>1, <2>2 DEF JobFineNext, Claims, Creating, i
  <1>9. QED
    BY <1>6, <1>7, <1>8

\* The key of the creation is claimed.
LEMMA ClaimJob ==
  ASSUME TypeOK, NEW w \in Workers, ClaimCreate(w)
  PROVE  JobFineNext(w) /\ Claims(w)
  <1> DEFINE j == job[w]
             k == j.key
  <1>1. j \in Jobs /\ k \in Cases
    BY JobFacts DEF ClaimCreate
  <1>2. CASE creates[k] # "none"
    <2>1. job'[w] = IdleJob
      BY <1>2 DEF ClaimCreate, CreateClaimable, TypeOK
    <2>2. QED
      BY <2>1, IdleJobOK, QuietWorker
  <1>3. CASE creates[k] = "none"
    <2>1. /\ job'[w].pc = "create" /\ job'[w].key = k /\ creates'[k] = "started"
      BY <1>1, <1>3 DEF ClaimCreate, CreateClaimable, TypeOK, Jobs
    <2>2. QED
      BY <1>3, <2>1 DEF JobFineNext, JobFine, Claims, Creating
  <1>4. QED
    BY <1>2, <1>3

\* The provider was asked for the link.
LEMMA CreateJob ==
  ASSUME TypeOK, CreateInv, JobsFine, NEW w \in Workers,
         ProviderCreates(w) \/ ProviderRefuses(w)
  PROVE  JobFineNext(w) /\ Claims(w)
  <1> DEFINE j == job[w]
             k == j.key
             i == job'[w]
  <1>1. j \in Jobs /\ j.pc = "create" /\ k \in Cases /\ cases' = cases /\ creates' = creates
    BY JobFacts DEF ProviderCreates, ProviderRefuses, db
  <1>2. creates[k] # "none" /\ cases[k].link = NoLink
    <2>1. created[k] = 0 /\ creates[k] # "none"
      BY <1>1 DEF CreateInv
    <2>2. QED
      BY <1>1, <2>1, CaseFacts DEF NoLink
  <1>3. /\ i.key = k
        /\ i.pc = "created" \/ (i.pc = "uncreated" /\ i.to.reason # "none")
    <2>1. job \in [ Workers -> Jobs ] /\ j.to \in Decisions
      BY JobFacts DEF TypeOK
    <2>2. ASSUME NEW n, job' = [ job EXCEPT ![w].pc = "created", ![w].link = n ]
          PROVE  i.key = k /\ i.pc = "created"
      BY <2>1, <2>2 DEF Jobs
    <2>3. ASSUME NEW r, job' = [ job EXCEPT ![w].pc = "uncreated", ![w].to.reason = r ]
          PROVE  i.key = k /\ i.pc = "uncreated" /\ i.to.reason = r
      BY <2>1, <2>3 DEF Jobs, Decisions
    <2>4. \/ \E n : job' = [ job EXCEPT ![w].pc = "created", ![w].link = n ]
          \/ \E r : r # "none" /\ job' = [ job EXCEPT ![w].pc = "uncreated",
                                                      ![w].to.reason = r ]
      BY DEF ProviderCreates, ProviderRefuses
    <2> HIDE DEF i, k
    <2>5. QED
      BY <2>2, <2>3, <2>4
  <1> HIDE DEF i
  <1>4. JobFine(i, cases'[i.key], creates'[i.key], plink'[i.key][1])
    BY <1>1, <1>2, <1>3 DEF JobFine, Creating
  <1>5. QED
    BY <1>1, <1>3, <1>4 DEF JobFineNext, Claims, Creating, i

\* The answer of a creation was persisted, or must be revoked.
LEMMA CreatedJob ==
  ASSUME TypeOK, JobsFine, NEW w \in Workers, RecordCreated(w)
  PROVE  JobFineNext(w) /\ Claims(w)
  <1> DEFINE j == job[w]
             k == j.key
             i == job'[w]
  <1>1. j \in Jobs /\ j.pc = "created" /\ job \in [ Workers -> Jobs ]
    BY JobFacts DEF RecordCreated, TypeOK
  <1>2. CASE job' = [ Saved({ k }) EXCEPT ![w] = IdleJob ]
    <2>1. i = IdleJob
      BY <1>2, SavedFacts
    <2>2. QED
      BY <2>1, IdleJobOK, QuietWorker
  <1>3. CASE job' = [ job EXCEPT ![w].pc = "supersede" ] /\ creates' = creates
    <2>1. i.pc = "supersede" /\ i.key = k
      BY <1>1, <1>3 DEF Jobs
    <2>2. creates[k] # "none"
      BY <1>1 DEF JobsFine, JobFine, Creating
    <2> HIDE DEF i
    <2>3. JobFine(i, cases'[i.key], creates'[i.key], plink'[i.key][1])
      BY <1>3, <2>1, <2>2 DEF JobFine, Creating
    <2>4. QED
      BY <1>1, <2>1, <2>3 DEF JobFineNext, Claims, Creating, i
  <1>4. QED
    BY <1>2, <1>3 DEF RecordCreated

\* The provider answered a cancel: the link is not issued any more.
LEMMA CancelJobAnswer ==
  ASSUME TypeOK, CreateInv, LinksKnown, NEW w \in Workers, CancelCall(w)
  PROVE  JobFineNext(w) /\ Claims(w)
  <1> DEFINE j == job[w]
             k == j.key
             n == j.link
             i == job'[w]
             p == plink'[k][n]
  <1>1. /\ j \in Jobs /\ j.pc = "cancel" /\ k \in Cases /\ job \in [ Workers -> Jobs ]
        /\ n \in 1 .. created[k]
    BY JobFacts DEF CancelCall, TypeOK, JobOK, HoldsLink
  <1>2. n = 1 /\ n \in Links
    BY <1>1, LinkIsOne, CaseFacts, RecoveryAssumption DEF Links
  <1>3. CASE job' = [ job EXCEPT ![w].pc = "uncancelled" ]
    <2>1. i.pc = "uncancelled"
      BY <1>1, <1>3 DEF Jobs
    <2>2. QED
      BY <2>1, QuietWorker
  <1>4. CASE job' = [ job EXCEPT ![w].pc = "cancelled", ![w].status = p ]
             /\ ProviderCancels(k, n)
    <2>1. p \notin CancellableLinkStatuses
      <3>1. plink \in [ Cases -> [ Links -> LinkStatuses ] ] /\ plink[k][n] # "created"
        BY <1>1, <1>2 DEF TypeOK, LinksKnown
      <3>2. CASE plink[k][n] = "issued"
        BY <1>1, <1>2, <1>4, <3>1, <3>2 DEF ProviderCancels, CancellableLinkStatuses
      <3>3. CASE plink[k][n] # "issued"
        BY <1>4, <3>1, <3>3 DEF ProviderCancels, CancellableLinkStatuses
      <3>4. QED
        BY <3>2, <3>3
    <2> HIDE DEF p
    <2>2. i.pc = "cancelled" /\ i.key = k /\ i.status = p
      BY <1>1, <1>4 DEF Jobs
    <2>3. plink'[k][1] = p
      BY <1>2 DEF p
    <2> HIDE DEF i
    <2>4. JobFine(i, cases'[i.key], creates'[i.key], plink'[i.key][1])
      BY <2>1, <2>2, <2>3 DEF JobFine, Creating, CancellableLinkStatuses
    <2>5. QED
      BY <2>2, <2>4 DEF JobFineNext, Claims, Creating, i
  <1>5. QED
    BY <1>3, <1>4 DEF CancelCall

\* A step of work leaves its worker with true knowledge.
LEMMA WorkJob ==
  ASSUME TypeOK, CreateInv, LinksKnown, JobsFine, NEW w \in Workers, Work(w)
  PROVE  JobFineNext(w) /\ Claims(w)
  <1> DEFINE j == job[w]
  <1>0. job \in [ Workers -> Jobs ] /\ \A S : Saved(S) \in [ Workers -> Jobs ]
    BY SavedFacts DEF TypeOK
  <1>1. CASE Commit(w) \/ RecordUncreated(w) \/ Supersede(w) \/ RecordCancelled(w)
             \/ RecordUncancelled(w) \/ PreviewSave(w)
    <2>1. \/ job' = [ job EXCEPT ![w] = IdleJob ]
          \/ job' = [ Saved({ j.key }) EXCEPT ![w] = IdleJob ]
      BY <1>1 DEF Commit, RecordUncreated, Supersede, RecordCancelled,
                  RecordUncancelled, PreviewSave
    <2>2. job'[w] = IdleJob
      BY <1>0, <2>1
    <2>3. QED
      BY <2>2, IdleJobOK, QuietWorker
  <1>2. CASE Sweep(w)
    <2>1. job'[w] = IdleJob \/ job'[w] = CancelJob(j.key, j.row, j.link)
      BY <1>0, <1>2 DEF Sweep
    <2>2. CancelJob(j.key, j.row, j.link).pc = "cancel"
      BY DEF CancelJob, IdleJob
    <2>3. QED
      BY <2>1, <2>2, IdleJobOK, QuietWorker
  <1>3. QED
    BY <1>1, <1>2, ConsiderJob, ClaimJob, CreateJob, CreatedJob, CancelJobAnswer DEF Work

\* So does the start of a request.
LEMMA StartJob ==
  ASSUME TypeInv, BooksFine, NEW w \in Workers, Start(w)
  PROVE  JobFineNext(w) /\ Claims(w)
  <1>0. TypeOK /\ job \in [ Workers -> Jobs ]
    BY DEF TypeInv, TypeOK
  <1>1. ASSUME NEW k \in Cases, Pick(w, k)
        PROVE  JobFineNext(w) /\ Claims(w)
    <2> DEFINE i == job'[w]
    <2>1. i.pc = "consider" /\ i.key = k /\ i.snap = cases[k]
      BY <1>0, <1>1 DEF Pick, IdleJob
    <2>2. cases[k].state \in WaitingStates /\ cases' = cases
      BY <1>1 DEF Pick, Due, WaitingStates, db
    <2> HIDE DEF i
    <2>3. JobFine(i, cases'[i.key], creates'[i.key], plink'[i.key][1])
      BY <2>1, <2>2 DEF JobFine, Creating
    <2>4. QED
      BY <2>1, <2>3 DEF JobFineNext, Claims, Creating, i
  <1>2. ASSUME NEW k \in Cases, NEW r \in CancelRows, SweepRead(w, k, r)
        PROVE  JobFineNext(w) /\ Claims(w)
    <2> DEFINE i == job'[w]
    <2>1. i.pc = "sweep" /\ i.key = k /\ i.status = cases[k].lstat
      BY <1>0, <1>2 DEF SweepRead, IdleJob
    <2>2. cases[k].lstat = "cancelled" => Bond(k) = "cancelled"
      BY DEF BooksFine, Fine, RowFine
    <2>3. plink' = plink
      BY <1>2 DEF SweepRead, provider
    <2> HIDE DEF i
    <2>4. JobFine(i, cases'[i.key], creates'[i.key], plink'[i.key][1])
      BY <2>1, <2>2, <2>3 DEF JobFine, Creating, Bond
    <2>5. QED
      BY <2>1, <2>4 DEF JobFineNext, Claims, Creating, i
  <1>3. CASE (\E e \in sent : Ingest(w, e)) \/ \E k \in Cases : PreviewRead(w, k)
    <2>1. job'[w].pc \in { "idle", "consider", "draft", "sweep", "cancel" }
      BY StartsIdle
    <2>2. ASSUME NEW k \in Cases, PreviewRead(w, k)
          PROVE  job'[w].pc = "draft"
      BY <1>0, <2>2 DEF PreviewRead, IdleJob
    <2>3. ASSUME NEW e \in sent, Ingest(w, e)
          PROVE  job'[w].pc \in { "idle", "cancel" }
      BY <2>3, <1>0, IngestEnds
    <2>4. QED
      BY <1>3, <2>2, <2>3, QuietWorker
  <1>4. QED
    BY <1>1, <1>2, <1>3 DEF Start

-----------------------------------------------------------------------------
(* The steps of the provider and its customers *)

\* A step of the outside world moves links and payments on, and announces
\* only what is true.
WorldStep ==
    /\ \A k \in Cases : /\ Moves(Bond(k), plink'[k][1])
                        /\ pay[k] = "captured" => pay'[k] = "captured"
    /\ LinksKnown'
    /\ \A e \in sent' \ sent :
          EventFine(e, cases'[e.key], plink'[e.key][1], pay'[e.key])

\* Nothing happens outside.
LEMMA QuietWorld ==
  ASSUME LinksKnown, UNCHANGED << plink, created, pay, sent >>
  PROVE  WorldStep
  BY DEF WorldStep, LinksKnown, Moves, Bond

\* One invoice's link or payment moves on, and perhaps one webhook says so.
LEMMA NewsWorld ==
  ASSUME LinksKnown, NEW k \in Cases, NEW e, e.key = k, created' = created,
         sent' \in { sent, sent \cup { e } },
         \A i \in Cases \ { k } : plink'[i] = plink[i] /\ pay'[i] = pay[i],
         \A m \in Links \ { 1 } : plink'[k][m] = plink[k][m],
         Moves(Bond(k), plink'[k][1]), pay[k] = "captured" => pay'[k] = "captured",
         EventFine(e, cases'[k], plink'[k][1], pay'[k])
  PROVE  WorldStep
  <1>1. \A i \in Cases : /\ Moves(Bond(i), plink'[i][1])
                         /\ pay[i] = "captured" => pay'[i] = "captured"
    BY DEF Moves, Bond
  <1>2. LinksKnown'
    <2>1. SUFFICES ASSUME NEW i \in Cases, NEW n \in Links, plink'[i][n] # "none"
                   PROVE  n <= created[i] /\ plink'[i][n] # "created"
      BY DEF LinksKnown
    <2>2. CASE i # k \/ n # 1
      BY <2>1, <2>2 DEF LinksKnown
    <2>3. CASE i = k /\ n = 1
      <3>1. Bond(k) # "none"
        BY <2>1, <2>3 DEF Moves
      <3>2. 1 <= created[k] /\ Bond(k) # "created"
        BY <2>1, <2>3, <3>1 DEF LinksKnown, Bond
      <3>3. QED
        BY <2>3, <3>2 DEF Moves
    <2>4. QED
      BY <2>2, <2>3
  <1>3. \A f \in sent' \ sent : f = e
    OBVIOUS
  <1>4. QED
    BY <1>1, <1>2, <1>3 DEF WorldStep

\* What is said without a word about links or collected money.
LEMMA IdleNews ==
  ASSUME NEW e, NEW c, NEW p, NEW paid, e.captured = FALSE,
         e.type \in FailureEvents \cup ReversalEvents \cup { "payment.authorized" }
  PROVE  EventFine(e, c, p, paid)
  BY DEF EventFine, IsCapture, FailureEvents, ReversalEvents, LinkEvents

\* The customers, the bank and the provider.
LEMMA EnvironmentWorld ==
  ASSUME TypeOK, CreateInv, LinksKnown, Environment
  PROVE  WorldStep
  <1>0. /\ plink \in [ Cases -> [ Links -> LinkStatuses ] ]
        /\ pay \in [ Cases -> { "failed", "authorized", "captured" } ]
    BY DEF TypeOK
  <1>1. ASSUME NEW k \in Cases, NEW e, e.key = k, e.captured = FALSE,
               e.type \in FailureEvents \cup ReversalEvents,
               sent' = sent \cup { e }, UNCHANGED << plink, created, pay >>
        PROVE  WorldStep
    <2>1. EventFine(e, cases'[k], plink'[k][1], pay'[k])
      BY <1>1, IdleNews
    <2>2. Moves(Bond(k), plink'[k][1])
      BY <1>1 DEF Moves, Bond
    <2>3. QED
      BY <1>1, <2>1, <2>2, NewsWorld
  <1>2. ASSUME NEW k \in Cases, NEW type \in FailureEvents, Decline(k, type)
        PROVE  WorldStep
    <2>1. PICK m, code : /\ sent' = sent \cup { Event(type, k, m, code, FALSE, NoLink) }
                         /\ UNCHANGED << plink, created, pay >>
      BY <1>2 DEF Decline, Emit
    <2> DEFINE e == Event(type, k, m, code, FALSE, NoLink)
    <2>2. e.type = type /\ e.key = k /\ e.captured = FALSE
      BY DEF Event
    <2>3. sent' = sent \cup { e }
      BY <2>1
    <2> HIDE DEF e
    <2>4. QED
      BY <1>1, <2>1, <2>2, <2>3
  <1>3. ASSUME NEW k \in Cases, NEW type \in ReversalEvents, Reverse(k, type)
        PROVE  WorldStep
    <2> DEFINE e == Event(type, k, 0, "none", FALSE, NoLink)
    <2>1. e.type = type /\ e.key = k /\ e.captured = FALSE
      BY DEF Event
    <2>2. sent' = sent \cup { e } /\ UNCHANGED << plink, created, pay >>
      BY <1>3 DEF Reverse, Emit
    <2> HIDE DEF e
    <2>3. QED
      BY <1>1, <2>1, <2>2
  <1>4. ASSUME NEW k \in Cases, Authorise(k)
        PROVE  WorldStep
    <2> DEFINE e == Event("payment.authorized", k, 0, "none", FALSE, NoLink)
    <2>1. e.type = "payment.authorized" /\ e.key = k /\ e.captured = FALSE
      BY DEF Event
    <2>2. /\ sent' = sent \cup { e } /\ UNCHANGED << plink, created >>
          /\ pay[k] = "failed" /\ pay' = [ pay EXCEPT ![k] = "authorized" ]
      BY <1>4 DEF Authorise, Emit
    <2> HIDE DEF e
    <2>3. EventFine(e, cases'[k], plink'[k][1], pay'[k])
      BY <2>1, IdleNews
    <2>4. Moves(Bond(k), plink'[k][1]) /\ \A i \in Cases \ { k } : pay'[i] = pay[i]
      BY <1>0, <2>2 DEF Moves, Bond
    <2>5. QED
      BY <2>1, <2>2, <2>3, <2>4, NewsWorld
  <1>5. ASSUME NEW k \in Cases, NEW type \in SuccessEvents, Capture(k, type)
        PROVE  WorldStep
    <2> DEFINE e == Event(type, k, 0, "none", TRUE, NoLink)
    <2>1. e.type = type /\ e.key = k
      BY DEF Event
    <2>2. /\ sent' = sent \cup { e } /\ UNCHANGED << plink, created >>
          /\ pay' = [ pay EXCEPT ![k] = "captured" ]
      BY <1>5 DEF Capture, Emit
    <2> HIDE DEF e
    <2>3. pay'[k] = "captured" /\ \A i \in Cases \ { k } : pay'[i] = pay[i]
      BY <1>0, <2>2
    <2>4. EventFine(e, cases'[k], plink'[k][1], pay'[k])
      BY <2>1, <2>3 DEF EventFine, SuccessEvents, LinkEvents
    <2>5. Moves(Bond(k), plink'[k][1])
      BY <2>2 DEF Moves, Bond
    <2>6. QED
      BY <2>1, <2>2, <2>3, <2>4, <2>5, NewsWorld
  <1>6. ASSUME NEW k \in Cases, NEW n \in Links, PayLink(k, n)
        PROVE  WorldStep
    <2>1. n = 1 /\ cases[k].link = 1 /\ cases' = cases
      BY <1>6, LinkIsOne DEF PayLink, db, NoLink, Links
    <2>2. PICK s \in { "paid", "partially_paid" } \ { plink[k][n] } :
            /\ plink' = [ plink EXCEPT ![k][n] = s ]
            /\ sent' = sent \cup { Event(IF s = "paid" THEN "payment_link.paid"
                                         ELSE "payment_link.partially_paid",
                                         k, 0, "none", FALSE, n) }
      BY <1>6 DEF PayLink, Emit
    <2> DEFINE type == IF s = "paid" THEN "payment_link.paid"
                       ELSE "payment_link.partially_paid"
               e == Event(type, k, 0, "none", FALSE, n)
    <2>3. e.type = type /\ e.key = k /\ e.captured = FALSE /\ e.link = n
      BY DEF Event
    <2>4. sent' = sent \cup { e } /\ UNCHANGED << created, pay >>
          /\ plink[k][n] \in { "issued", "partially_paid" }
      BY <1>6, <2>2 DEF PayLink
    <2> HIDE DEF e
    <2>5. /\ plink'[k][1] = s /\ \A i \in Cases \ { k } : plink'[i] = plink[i]
          /\ \A m \in Links \ { 1 } : plink'[k][m] = plink[k][m]
      BY <1>0, <2>1, <2>2
    <2>6. EventFine(e, cases'[k], plink'[k][1], pay'[k])
      BY <2>1, <2>3, <2>5 DEF EventFine, IsCapture, LinkEvents
    <2>7. Moves(Bond(k), plink'[k][1])
      BY <2>1, <2>4, <2>5 DEF Moves, Bond
    <2>8. QED
      BY <2>3, <2>4, <2>5, <2>6, <2>7, NewsWorld
  <1>7. ASSUME NEW k \in Cases, NEW n \in Links, CloseLink(k, n)
        PROVE  WorldStep
    <2>1. n = 1 /\ plink[k][n] = "issued"
      <3>1. plink[k][n] = "issued"
        BY <1>7 DEF CloseLink
      <3>2. n <= created[k]
        BY <3>1 DEF LinksKnown
      <3>3. n \in 1 .. created[k]
        BY <3>2, CaseFacts DEF Links
      <3>4. QED
        BY <3>1, <3>3, LinkIsOne
    <2>2. PICK s \in { "expired", "cancelled" } :
            /\ plink' = [ plink EXCEPT ![k][n] = s ]
            /\ sent' = sent \cup { Event(IF s = "expired" THEN "payment_link.expired"
                                         ELSE "payment_link.cancelled",
                                         k, 0, "none", FALSE, n) }
      BY <1>7 DEF CloseLink, Emit
    <2> DEFINE type == IF s = "expired" THEN "payment_link.expired"
                       ELSE "payment_link.cancelled"
               e == Event(type, k, 0, "none", FALSE, n)
    <2>3. e.type = type /\ e.key = k /\ e.captured = FALSE /\ e.link = n
      BY DEF Event
    <2>4. sent' = sent \cup { e } /\ UNCHANGED << created, pay >>
      BY <1>7, <2>2 DEF CloseLink
    <2> HIDE DEF e
    <2>5. /\ plink'[k][1] = s /\ \A i \in Cases \ { k } : plink'[i] = plink[i]
          /\ \A m \in Links \ { 1 } : plink'[k][m] = plink[k][m]
      BY <1>0, <2>1, <2>2
    <2>6. EventFine(e, cases'[k], plink'[k][1], pay'[k])
      BY <2>1, <2>3, <2>5 DEF EventFine, IsCapture, LinkEvents
    <2>7. Moves(Bond(k), plink'[k][1])
      BY <2>1, <2>5 DEF Moves, Bond
    <2>8. QED
      BY <2>3, <2>4, <2>5, <2>6, <2>7, NewsWorld
  <1>8. CASE Tick
    BY <1>8, QuietWorld DEF Tick, provider
  <1>9. QED
    BY <1>2, <1>3, <1>4, <1>5, <1>6, <1>7, <1>8 DEF Environment

\* The provider's side of a cancel.
LEMMA CancelsWorld ==
  ASSUME TypeOK, LinksKnown, NEW k \in Cases, 1 \in Links,
         ProviderCancels(k, 1) \/ UNCHANGED << plink, sent >>,
         UNCHANGED << created, pay >>
  PROVE  WorldStep
  <1> DEFINE e == Event("payment_link.cancelled", k, 0, "none", FALSE, 1)
  <1>1. CASE UNCHANGED << plink, sent >>
    BY <1>1, QuietWorld
  <1>2. CASE ProviderCancels(k, 1) /\ plink[k][1] = "issued"
    <2>1. plink \in [ Cases -> [ Links -> LinkStatuses ] ]
      BY DEF TypeOK
    <2>2. plink' = [ plink EXCEPT ![k][1] = "cancelled" ] /\ sent' \in { sent, sent \cup { e } }
      BY <1>2 DEF ProviderCancels
    <2>3. /\ e.type = "payment_link.cancelled" /\ e.key = k /\ e.captured = FALSE
          /\ e.link = 1
      BY DEF Event
    <2> HIDE DEF e
    <2>4. /\ plink'[k][1] = "cancelled" /\ \A i \in Cases \ { k } : plink'[i] = plink[i]
          /\ \A m \in Links \ { 1 } : plink'[k][m] = plink[k][m]
      BY <2>1, <2>2
    <2>5. EventFine(e, cases'[k], plink'[k][1], pay'[k])
      BY <2>3, <2>4 DEF EventFine, IsCapture, LinkEvents
    <2>6. Moves(Bond(k), plink'[k][1])
      BY <1>2, <2>4 DEF Moves, Bond
    <2>7. QED
      BY <2>2, <2>3, <2>4, <2>5, <2>6, NewsWorld
  <1>3. QED
    BY <1>1, <1>2 DEF ProviderCancels

-----------------------------------------------------------------------------
(* Every step, put together *)

\* A step of work leaves the books fine.
LEMMA WorkBooks ==
  ASSUME TypeInv, CreateInv, BooksFine, JobsFine, NEW w \in Workers, Work(w)
  PROVE  BookStep
  <1>0. TypeOK /\ RevokersHoldRows
    BY DEF TypeInv
  <1>1. CASE Consider(w) \/ ClaimCreate(w) \/ ProviderCreates(w) \/ ProviderRefuses(w)
             \/ Supersede(w) \/ CancelCall(w)
    <2>1. cases' = cases /\ cancels' = cancels
      BY <1>1 DEF Consider, ClaimCreate, ProviderCreates, ProviderRefuses,
                  Supersede, CancelCall, db
    <2>2. QED
      BY <2>1, NoBook
  <1>2. QED
    BY <1>0, <1>1, CommitBooks, UncreatedBooks, CreatedBooks, CancelledBooks,
       UncancelledBooks, SweepBooks, PreviewBooks DEF Work

\* So does the start of a request.
LEMMA StartBooks ==
  ASSUME TypeInv, CreateInv, BooksFine, EventsFine, NEW w \in Workers, Start(w)
  PROVE  BookStep
  <1>0. TypeOK
    BY DEF TypeInv
  <1>1. ASSUME NEW e \in sent, Ingest(w, e)
        PROVE  BookStep
    BY <1>0, <1>1, FailureBooks, SuccessBooks, LinkBooks, ReversalBooks DEF Ingest
  <1>2. ASSUME cases' = cases, cancels' = cancels
        PROVE  BookStep
    BY <1>2, NoBook
  <1>3. ASSUME NEW k \in Cases, Pick(w, k) \/ PreviewRead(w, k)
        PROVE  cases' = cases /\ cancels' = cancels
    BY <1>3 DEF Pick, PreviewRead, db
  <1>4. ASSUME NEW k \in Cases, NEW r \in CancelRows, SweepRead(w, k, r)
        PROVE  cases' = cases /\ cancels' = cancels
    BY <1>4 DEF SweepRead, db
  <1>5. QED
    BY <1>1, <1>2, <1>3, <1>4 DEF Start

\* Every step leaves the books fine.
LEMMA NextBooks ==
  ASSUME TypeInv, CreateInv, SettleInv, [Next]_vars
  PROVE  BookStep
  <1>0. TypeOK /\ BooksFine /\ EventsFine /\ JobsFine
    BY DEF TypeInv, SettleInv
  <1>1. CASE Operator
    BY <1>0, <1>1, ReopenBooks DEF Operator
  <1>2. CASE Environment \/ Crash \/ UNCHANGED vars
    <2>1. cases' = cases /\ cancels' = cancels
      BY <1>2 DEF Environment, Decline, Authorise, Capture, PayLink, CloseLink,
                  Reverse, Tick, Crash, vars, db
    <2>2. QED
      BY <1>0, <2>1, NoBook
  <1>3. QED
    BY <1>0, <1>1, <1>2, WorkBooks, StartBooks DEF Next

\* Every step but the creation of a link is one of the outside world, or
\* leaves it alone.
LEMMA NextWorld ==
  ASSUME TypeInv, CreateInv, SettleInv, [Next]_vars,
         \A w \in Workers : ~ProviderCreates(w)
  PROVE  WorldStep
  <1>0. TypeOK /\ LinksKnown
    BY DEF TypeInv, SettleInv
  <1>1. ASSUME NEW w \in Workers, Work(w), ~Supersede(w), ~CancelCall(w)
        PROVE  UNCHANGED << plink, created, pay, sent >>
    BY <1>1 DEF Work, Consider, Commit, ClaimCreate, ProviderRefuses, RecordUncreated,
                RecordCreated, RecordCancelled, RecordUncancelled, Sweep, PreviewSave,
                provider
  <1>2. ASSUME NEW w \in Workers, Start(w)
        PROVE  UNCHANGED << plink, created, pay, sent >>
    BY <1>2 DEF Start, Ingest, IngestFailure, IngestSuccess, IngestLink, IngestReversal,
                Receive, Pick, PreviewRead, SweepRead, provider
  <1>3. CASE Operator \/ Crash \/ UNCHANGED vars
    <2>1. UNCHANGED << plink, created, pay, sent >>
      BY <1>3 DEF Operator, Reopen, Crash, vars, provider
    <2>2. QED
      BY <1>0, <2>1, QuietWorld
  <1>4. ASSUME NEW w \in Workers, Supersede(w) \/ CancelCall(w)
        PROVE  WorldStep
    <2> DEFINE k == job[w].key
               n == job[w].link
    <2>1. k \in Cases /\ n \in 1 .. created[k]
      BY <1>0, <1>4, JobFacts DEF Supersede, CancelCall, JobOK, HoldsLink
    <2>2. n = 1 /\ 1 \in Links
      BY <1>0, <2>1, LinkIsOne, CaseFacts, RecoveryAssumption DEF Links
    <2>3. /\ ProviderCancels(k, n) \/ UNCHANGED << plink, sent >>
          /\ UNCHANGED << created, pay >>
      BY <1>4 DEF Supersede, CancelCall
    <2>4. ProviderCancels(k, 1) \/ UNCHANGED << plink, sent >>
      BY <2>2, <2>3
    <2>5. QED
      BY <1>0, <2>1, <2>2, <2>3, <2>4, CancelsWorld
  <1>5. QED
    BY <1>0, <1>1, <1>2, <1>3, <1>4, EnvironmentWorld, QuietWorld DEF Next

\* No step frees the row of a creation.
LEMMA NextCreates ==
  ASSUME TypeInv, [Next]_vars
  PROVE  \A k \in Cases : creates'[k] = "none" => creates[k] = "none"
  <1>0. creates \in [ Cases -> { "none", "started", "succeeded", "failed",
                                 "superseded" } ]
    BY DEF TypeInv, TypeOK
  <1>1. ASSUME NEW w \in Workers, Work(w)
        PROVE  \/ creates' = creates
               \/ \E s \in { "started", "failed", "succeeded", "superseded" } :
                     creates' = [ creates EXCEPT ![job[w].key] = s ]
    BY <1>1 DEF Work, Consider, Commit, ClaimCreate, ProviderCreates, ProviderRefuses,
                RecordUncreated, RecordCreated, Supersede, CancelCall, RecordCancelled,
                RecordUncancelled, Sweep, PreviewSave, db
  <1>2. ASSUME NEW w \in Workers, Start(w)
        PROVE  creates' = creates
    BY <1>2 DEF Start, Ingest, IngestFailure, IngestSuccess, IngestLink,
                IngestReversal, Receive, Pick, PreviewRead, SweepRead, db
  <1>3. CASE Operator \/ Environment \/ Crash \/ UNCHANGED vars
    BY <1>3 DEF Operator, Reopen, Environment, Decline, Authorise, Capture, PayLink,
                CloseLink, Reverse, Tick, Crash, vars, db
  <1>4. QED
    BY <1>0, <1>1, <1>2, <1>3 DEF Next

\* Every step leaves every worker with true knowledge.
LEMMA NextJobs ==
  ASSUME TypeInv, CreateInv, SettleInv, [Next]_vars
  PROVE  \A v \in Workers : JobKept(v) \/ JobFineNext(v)
  <1>0. TypeOK /\ LinksKnown /\ BooksFine /\ JobsFine
    BY DEF TypeInv, SettleInv
  <1>1. ASSUME NEW w \in Workers, Work(w)
        PROVE  \A v \in Workers : JobKept(v) \/ JobFineNext(v)
    BY <1>0, <1>1, WorkKeepsJobs, WorkJob
  <1>2. ASSUME NEW w \in Workers, Start(w)
        PROVE  \A v \in Workers : JobKept(v) \/ JobFineNext(v)
    BY <1>0, <1>2, StartKeepsJobs, StartJob
  <1>3. ASSUME NEW k \in Cases, NEW class \in FailureClasses \cup { "none" },
               Reopen(k, class)
        PROVE  \A v \in Workers : JobKept(v)
    <2>1. \A i \in Cases \ { k } : cases'[i].state = cases[i].state
      BY <1>0, <1>3 DEF Reopen, TypeOK
    <2>2. job' = Saved({ k })
      BY <1>3 DEF Reopen
    <2>3. QED
      BY <1>0, <2>1, <2>2, SavedKeeps DEF JobKept
  <1>4. CASE Environment \/ UNCHANGED vars
    <2>1. cases' = cases /\ job' = job
      BY <1>4 DEF Environment, Decline, Authorise, Capture, PayLink, CloseLink,
                  Reverse, Tick, vars, db
    <2>2. QED
      BY <2>1, SameKeeps
  <1>5. CASE Crash
    <2>1. \A v \in Workers : job'[v].pc = "idle"
      BY <1>5, IdleJobOK DEF Crash
    <2>2. QED
      BY <2>1, QuietWorker
  <1>6. QED
    BY <1>1, <1>2, <1>3, <1>4, <1>5 DEF Next, Operator

-----------------------------------------------------------------------------
(* The invariant is kept *)

\* The rows stay true of the provider.
LEMMA BooksKept ==
  ASSUME BookStep, WorldStep
  PROVE  BooksFine'
  <1> SUFFICES ASSUME NEW k \in Cases
               PROVE  Fine(cases'[k], cancels'[k], plink'[k][1], pay'[k])
    BY DEF BooksFine, Bond
  <1>1. /\ Fine(cases'[k], cancels'[k], Bond(k), pay[k])
        /\ Moves(Bond(k), plink'[k][1]) /\ (pay[k] = "captured" => pay'[k] = "captured")
    BY DEF BookStep, WorldStep
  <1>2. QED
    BY <1>1, ProviderKeepsFine

\* What was ever said stays true.
LEMMA EventsKept ==
  ASSUME TypeOK, EventsFine, BookStep, WorldStep
  PROVE  EventsFine'
  <1> SUFFICES ASSUME NEW e \in sent'
               PROVE  EventFine(e, cases'[e.key], plink'[e.key][1], pay'[e.key])
    BY DEF EventsFine, Bond
  <1>1. CASE e \in sent
    <2> DEFINE k == e.key
    <2>1. k \in Cases
      BY <1>1 DEF TypeOK, EventRecords
    <2>2. cases'[k].link = cases[k].link \/ cases[k].link = NoLink
      BY <2>1 DEF BookStep, Onward, Published
    <2>3. Moves(Bond(k), plink'[k][1]) /\ (pay[k] = "captured" => pay'[k] = "captured")
      BY <2>1 DEF WorldStep
    <2>4. EventFine(e, cases[k], Bond(k), pay[k])
      BY <1>1 DEF EventsFine
    <2>5. QED
      BY <2>2, <2>3, <2>4, EventStays
  <1>2. CASE e \notin sent
    BY <1>2 DEF WorldStep
  <1>3. QED
    BY <1>1, <1>2

\* What a worker knows stays true: only the one that created a link can
\* publish it.
LEMMA JobsKept ==
  ASSUME TypeOK, JobsFine, CreatorsApart, BookStep, WorldStep,
         \A k \in Cases : creates'[k] = "none" => creates[k] = "none",
         \A v \in Workers : JobKept(v) \/ JobFineNext(v)
  PROVE  JobsFine'
  <1> SUFFICES ASSUME NEW v \in Workers
               PROVE  JobFineNext(v)
    BY DEF JobsFine, JobFineNext, Bond
  <1>1. CASE job[v].pc = "idle" /\ JobKept(v)
    BY <1>1, QuietWorker DEF JobKept, Kept
  <1>2. CASE job[v].pc # "idle" /\ JobKept(v)
    <2> DEFINE j == job[v]
               i == job'[v]
               k == j.key
    <2>1. k \in Cases /\ i.key = k /\ i.pc = j.pc
      BY <1>2, JobFacts DEF JobKept, Kept
    <2>2. JobFine(j, cases[k], creates[k], Bond(k))
      BY DEF JobsFine
    <2>3. Kept(j, i, cases[k], cases'[k])
      BY <1>2 DEF JobKept
    <2>4. Moves(Bond(k), plink'[k][1]) /\ (creates'[k] = "none" => creates[k] = "none")
      BY <2>1 DEF WorldStep
    <2>5. j.pc = "created" => cases'[k].link = cases[k].link
      <3>1. ASSUME j.pc = "created", Published(k)
            PROVE  FALSE
        BY <2>1, <3>1 DEF Published, CreatorsApart, Creating
      <3>2. QED
        BY <2>1, <3>1 DEF BookStep, Onward
    <2>6. JobFine(i, cases'[k], creates'[k], plink'[k][1])
      <3> DEFINE c == cases[k]
                 d == cases'[k]
                 x == creates[k]
                 y == creates'[k]
                 p == Bond(k)
                 q == plink'[k][1]
      <3>1. /\ JobFine(j, c, x, p) /\ Kept(j, i, c, d) /\ Moves(p, q)
            /\ y = "none" => x = "none"
            /\ j.pc = "created" => d.link = c.link
        BY <2>2, <2>3, <2>4, <2>5
      <3> HIDE DEF c, d, x, y, p, q, j, i
      <3>2. JobFine(i, d, y, q)
        BY <3>1, JobStays
      <3>3. QED
        BY <3>2 DEF d, y, q
    <2>7. QED
      BY <2>1, <2>6 DEF JobFineNext
  <1>3. QED
    BY <1>1, <1>2

\* Whoever creates the link of an invoice stays alone: a creation is claimed
\* only when nobody has claimed it before.
LEMMA CreatorsKept ==
  ASSUME TypeInv, CreateInv, SettleInv, [Next]_vars
  PROVE  CreatorsApart'
  <1>0. TypeOK /\ LinksKnown /\ BooksFine /\ JobsFine /\ CreatorsApart
    BY DEF TypeInv, SettleInv
  <1>1. ASSUME NEW w \in Workers, Work(w) \/ Start(w)
        PROVE  CreatorsApart'
    <2>1. Claims(w)
      BY <1>0, <1>1, WorkJob, StartJob
    <2>2. \A v \in Workers \ { w } : job'[v].pc = job[v].pc /\ job'[v].key = job[v].key
      BY <1>1, OtherWorkers
    <2>3. \A v \in Workers : job[v].pc \in Creating => creates[job[v].key] # "none"
      BY <1>0 DEF JobsFine, JobFine
    <2>4. ASSUME NEW u \in Workers, NEW v \in Workers, job'[u].pc \in Creating,
                 job'[v].pc \in Creating, job'[u].key = job'[v].key
          PROVE  u = v
      BY <1>0, <2>1, <2>2, <2>3, <2>4 DEF Claims, CreatorsApart
    <2>5. QED
      BY <2>4 DEF CreatorsApart
  <1>2. ASSUME \A v \in Workers : job'[v].pc = job[v].pc /\ job'[v].key = job[v].key
        PROVE  CreatorsApart'
    BY <1>0, <1>2 DEF CreatorsApart
  <1>3. CASE Operator
    <2>1. \E S : job' = Saved(S)
      BY <1>3 DEF Operator, Reopen
    <2>2. QED
      BY <1>0, <1>2, <2>1, SavedFacts
  <1>4. CASE Environment \/ UNCHANGED vars
    <2>1. job' = job
      BY <1>4 DEF Environment, Decline, Authorise, Capture, PayLink, CloseLink,
                  Reverse, Tick, vars
    <2>2. QED
      BY <1>2, <2>1
  <1>5. CASE Crash
    <2>1. \A v \in Workers : job'[v].pc = "idle"
      BY <1>5, IdleJobOK DEF Crash
    <2>2. QED
      BY <2>1 DEF CreatorsApart, Creating
  <1>6. QED
    BY <1>1, <1>3, <1>4, <1>5 DEF Next

\* The creation of a link: there was none, and nothing was ever said about it.
LEMMA CreationSettles ==
  ASSUME TypeInv, CreateInv, SettleInv, [Next]_vars, NEW w \in Workers,
         ProviderCreates(w)
  PROVE  LinksKnown' /\ BooksFine' /\ EventsFine' /\ JobsFine'
  <1> DEFINE k == job[w].key
  <1>0. TypeOK /\ LinksKnown /\ BooksFine /\ EventsFine /\ JobsFine
    BY DEF TypeInv, SettleInv
  <1>1. /\ k \in Cases /\ job[w].pc = "create"
        /\ cases' = cases /\ cancels' = cancels /\ creates' = creates
        /\ pay' = pay /\ sent' = sent
    BY <1>0, JobFacts DEF ProviderCreates, db
  <1>2. created[k] = 0 /\ cases[k].link = NoLink
    <2>1. created[k] = 0
      BY <1>1 DEF CreateInv
    <2>2. QED
      BY <1>0, <1>1, <2>1, CaseFacts DEF NoLink
  <1>3. /\ 1 \in Links /\ created' = [ created EXCEPT ![k] = 1 ]
        /\ plink' = [ plink EXCEPT ![k][1] = "issued" ]
    <2> DEFINE n == created[k] + 1
    <2>1. n = 1
      BY <1>2
    <2>2. /\ n <= MaxLinks /\ created' = [ created EXCEPT ![k] = n ]
          /\ plink' = [ plink EXCEPT ![k][n] = "issued" ]
      BY DEF ProviderCreates
    <2> HIDE DEF n
    <2>3. 1 \in Links
      BY <2>1, <2>2, RecoveryAssumption DEF Links
    <2>4. QED
      BY <2>1, <2>2, <2>3
  <1>4. /\ plink'[k][1] = "issued" /\ created'[k] = 1
        /\ \A m \in Links \ { 1 } : plink'[k][m] = plink[k][m]
        /\ \A i \in Cases \ { k } : plink'[i] = plink[i] /\ created'[i] = created[i]
    BY <1>0, <1>1, <1>3 DEF TypeOK
  <1>5. Bond(k) = "none" /\ \A m \in Links : plink[k][m] = "none"
    <2>1. ASSUME NEW m \in Links, plink[k][m] # "none"
          PROVE  FALSE
      BY <1>0, <1>1, <1>2, <2>1 DEF LinksKnown, Links
    <2>2. QED
      BY <1>3, <2>1 DEF Bond
  <1>6. LinksKnown'
    BY <1>0, <1>4, <1>5 DEF LinksKnown
  <1>7. BooksFine'
    <2>1. ASSUME NEW i \in Cases
          PROVE  Fine(cases[i], cancels[i], plink'[i][1], pay[i])
      <3>1. Fine(cases[i], cancels[i], Bond(i), pay[i])
        BY <1>0 DEF BooksFine
      <3>2. CASE i = k
        BY <1>2, <1>5, <3>1, <3>2, CreationKeepsFine
      <3>3. CASE i # k
        BY <1>4, <3>1, <3>3 DEF Bond
      <3>4. QED
        BY <3>2, <3>3
    <2>2. QED
      BY <1>1, <2>1 DEF BooksFine, Bond
  <1>8. EventsFine'
    <2>1. ASSUME NEW e \in sent
          PROVE  EventFine(e, cases[e.key], plink'[e.key][1], pay[e.key])
      <3>1. EventFine(e, cases[e.key], Bond(e.key), pay[e.key])
            /\ e.type \in EventTypes /\ e.key \in Cases
        BY <1>0 DEF EventsFine, TypeOK, EventRecords
      <3>2. CASE e.key = k
        <4>1. e.type \notin LinkEvents
          BY <1>5, <3>1, <3>2 DEF EventFine, LinkEvents
        <4>2. QED
          BY <3>1, <4>1 DEF EventFine, LinkEvents
      <3>3. CASE e.key # k
        BY <1>4, <3>1, <3>3 DEF Bond
      <3>4. QED
        BY <3>2, <3>3
    <2>2. QED
      BY <1>1, <2>1 DEF EventsFine, Bond
  <1>9. JobsFine'
    <2>1. ASSUME NEW v \in Workers \ { w }
          PROVE  JobFineNext(v)
      <3>1. job'[v] = job[v]
        BY <1>0 DEF ProviderCreates, TypeOK
      <3>2. JobFine(job[v], cases[job[v].key], creates[job[v].key], Bond(job[v].key))
        BY <1>0 DEF JobsFine
      <3>3. CASE job[v].key = k
        <4>1. job[v].pc \notin { "cancelled", "sweep" }
          BY <1>0, <1>2, <3>3, JobFacts DEF JobOK, HoldsLink
        <4> DEFINE j == job[v]
                   c == cases[k]
                   x == creates[k]
        <4>2. JobFine(j, c, x, Bond(k))
          BY <3>2, <3>3
        <4> HIDE DEF j, c, x
        <4>3. JobFine(j, c, x, plink'[k][1])
          BY <4>1, <4>2 DEF JobFine, j
        <4>4. QED
          BY <1>1, <3>1, <3>3, <4>3 DEF JobFineNext, j, c, x
      <3>4. CASE job[v].pc = "idle"
        BY <3>1, <3>4, QuietWorker
      <3>5. CASE job[v].key # k /\ job[v].pc # "idle"
        <4>1. job[v].key \in Cases
          BY <1>0, <3>5, JobFacts
        <4>2. plink'[job[v].key][1] = Bond(job[v].key)
          BY <1>4, <3>5, <4>1 DEF Bond
        <4>3. QED
          BY <1>1, <3>1, <3>2, <4>2 DEF JobFineNext
      <3>6. QED
        BY <3>3, <3>4, <3>5
    <2>2. JobFineNext(w)
      BY <1>0, CreateJob
    <2>3. QED
      BY <2>1, <2>2 DEF JobsFine, JobFineNext, Bond
  <1>10. QED
    BY <1>6, <1>7, <1>8, <1>9

\* Every step keeps the invariant.
LEMMA NextSettle == TypeInv /\ CreateInv /\ SettleInv /\ [Next]_vars => SettleInv'
  <1> SUFFICES ASSUME TypeInv, CreateInv, SettleInv, [Next]_vars PROVE SettleInv'
    OBVIOUS
  <1>0. TypeOK /\ BooksFine /\ EventsFine /\ JobsFine /\ CreatorsApart
    BY DEF TypeInv, SettleInv
  <1>1. CreatorsApart'
    BY CreatorsKept
  <1>2. ASSUME NEW w \in Workers, ProviderCreates(w)
        PROVE  LinksKnown' /\ BooksFine' /\ EventsFine' /\ JobsFine'
    BY <1>2, CreationSettles
  <1>3. ASSUME \A w \in Workers : ~ProviderCreates(w)
        PROVE  LinksKnown' /\ BooksFine' /\ EventsFine' /\ JobsFine'
    <2>1. BookStep
      BY NextBooks
    <2>2. WorldStep
      BY <1>3, NextWorld
    <2>3. JobsFine'
      BY <1>0, <2>1, <2>2, NextCreates, NextJobs, JobsKept
    <2>4. QED
      BY <1>0, <2>1, <2>2, <2>3, BooksKept, EventsKept DEF WorldStep
  <1>4. QED
    BY <1>1, <1>2, <1>3 DEF SettleInv

\* It holds at first.
LEMMA InitSettle == Init => SettleInv /\ CreateInv
  <1> SUFFICES ASSUME Init PROVE SettleInv /\ CreateInv
    OBVIOUS
  <1>1. \A k \in Cases : /\ cases[k] = AbsentCase /\ plink[k] = [ n \in Links |-> "none" ]
                         /\ \A r \in CancelRows : cancels[k][r].status = "none"
    BY DEF Init
  <1>2. /\ AbsentCase.state = "absent" /\ AbsentCase.link = NoLink
        /\ AbsentCase.lstat = "none" /\ ~AbsentCase.recon /\ ~AbsentCase.preview
    BY DEF AbsentCase, NewCase
  <1>3. \A w \in Workers : job[w].pc = "idle"
    BY IdleJobOK DEF Init
  <1>4. LinksKnown
    BY <1>1 DEF LinksKnown
  <1>5. BooksFine
    BY <1>1, <1>2 DEF BooksFine, Fine, RowFine, LedgerFine, SettledStates, ParkedStates,
                      NoLink
  <1>6. EventsFine
    BY DEF Init, EventsFine
  <1>7. JobsFine /\ CreatorsApart
    BY <1>3, QuietJob DEF JobsFine, CreatorsApart, Creating
  <1>8. CreateInv
    BY <1>3 DEF Init, CreateInv
  <1>9. QED
    BY <1>4, <1>5, <1>6, <1>7, <1>8 DEF SettleInv

\* It holds in every reachable state.
LEMMA SettleInvariant == Spec => [](CreateInv /\ SettleInv)
  <1>1. QED
    BY InitSettle, NextCreate, NextSettle, TypeInvariant, PTL DEF Spec

-----------------------------------------------------------------------------
(* Cancels in flight *)

\* The job j is revoking a link for cancel row r of case k.
Flies(j, k, r) ==
    j.pc \in { "cancel", "cancelled", "uncancelled" } /\ j.key = k /\ j.row = r

\* Until the first crash, a worker holds every cancel row that is started.
Flights ==
    crashes = 0 => \A k \in Cases, r \in CancelRows :
        cancels[k][r].status = "started" => \E w \in Workers : Flies(job[w], k, r)

\* A row that is started after a step of worker w is one that w holds now, or
\* one that was started and that w did not hold.
Holds(w) ==
    \A k \in Cases, r \in CancelRows : cancels'[k][r].status = "started" =>
        \/ Flies(job'[w], k, r)
        \/ cancels[k][r].status = "started" /\ ~Flies(job[w], k, r)

\* A step that leaves the ledger alone, of a worker that holds no row.
LEMMA RowlessHolds ==
  ASSUME NEW w \in Workers, cancels' = cancels,
         job[w].pc \notin { "cancel", "cancelled", "uncancelled" }
  PROVE  Holds(w)
  BY DEF Holds, Flies

\* A step that claims a row for worker w.
LEMMA ClaimHolds ==
  ASSUME TypeOK, NEW w \in Workers, NEW k \in Cases, NEW r \in CancelRows, NEW n,
         cancels' = [ cancels EXCEPT ![k][r] = Claimed(@, n) ],
         job'[w].pc = "cancel" /\ job'[w].key = k /\ job'[w].row = r,
         job[w].pc \notin { "cancel", "cancelled", "uncancelled" }
  PROVE  Holds(w)
  <1>1. /\ Ledgered(cancels[k], cancels'[k], r, "started")
        /\ \A i \in Cases \ { k } : cancels'[i] = cancels[i]
    BY LedgerAt
  <1>2. QED
    BY <1>1 DEF Holds, Flies, Ledgered

\* A step that closes the row r of case k, as "succeeded" or as "failed".
LEMMA CloseHolds ==
  ASSUME TypeOK, NEW w \in Workers, NEW k \in Cases, NEW r \in CancelRows, NEW s,
         cancels' = [ cancels EXCEPT ![k][r].status = s ], s # "started",
         job[w].key = k /\ job[w].row = r
  PROVE  Holds(w)
  <1>1. /\ Ledgered(cancels[k], cancels'[k], r, s)
        /\ \A i \in Cases \ { k } : cancels'[i] = cancels[i]
    BY LedgerAt
  <1>2. QED
    BY <1>1 DEF Holds, Flies, Ledgered

\* The fields of a job that revokes a link.
LEMMA CancelJobFields ==
  \A k, r, n : /\ CancelJob(k, r, n).pc = "cancel" /\ CancelJob(k, r, n).key = k
               /\ CancelJob(k, r, n).row = r
  BY DEF CancelJob, IdleJob

\* A step of work holds what it should.
LEMMA WorkHolds ==
  ASSUME TypeOK, NEW w \in Workers, Work(w)
  PROVE  Holds(w)
  <1> DEFINE j == job[w]
  <1>0. j \in Jobs /\ job \in [ Workers -> Jobs ] /\ (j.pc # "idle" => j.key \in Cases)
        /\ j.row \in CancelRows
    BY JobFacts DEF TypeOK, Jobs
  <1>1. CASE Consider(w) \/ Commit(w) \/ ClaimCreate(w) \/ ProviderCreates(w)
             \/ ProviderRefuses(w) \/ RecordUncreated(w) \/ RecordCreated(w)
             \/ Supersede(w) \/ PreviewSave(w)
    <2>1. /\ cancels' = cancels
          /\ job[w].pc \notin { "cancel", "cancelled", "uncancelled" }
      BY <1>1 DEF Consider, Commit, ClaimCreate, ProviderCreates, ProviderRefuses,
                  RecordUncreated, RecordCreated, Supersede, PreviewSave, db
    <2>2. QED
      BY <2>1, RowlessHolds
  <1>2. CASE CancelCall(w)
    <2>1. cancels' = cancels
      BY <1>2 DEF CancelCall, db
    <2>2. /\ job'[w].pc \in { "cancelled", "uncancelled" } /\ job'[w].key = j.key
          /\ job'[w].row = j.row
      BY <1>0, <1>2 DEF CancelCall, Jobs
    <2>3. QED
      BY <2>1, <2>2 DEF Holds, Flies
  <1>3. CASE RecordCancelled(w) \/ RecordUncancelled(w)
    <2>1. \E s \in { "succeeded", "failed" } :
             cancels' = [ cancels EXCEPT ![j.key][j.row].status = s ]
      BY <1>3 DEF RecordCancelled, RecordUncancelled
    <2>2. j.key \in Cases
      BY <1>0, <1>3 DEF RecordCancelled, RecordUncancelled
    <2>3. QED
      BY <1>0, <2>1, <2>2, CloseHolds
  <1>4. CASE Sweep(w)
    <2>1. j.pc = "sweep" /\ j.key \in Cases
      BY <1>0, <1>4 DEF Sweep
    <2>2. \/ cancels' = cancels
          \/ cancels' = [ cancels EXCEPT ![j.key][j.row].status = "succeeded" ]
          \/ /\ cancels' = [ cancels EXCEPT ![j.key][j.row] = Claimed(@, j.link) ]
             /\ job' = [ job EXCEPT ![w] = CancelJob(j.key, j.row, j.link) ]
      BY <1>4 DEF Sweep
    <2>3. ASSUME job' = [ job EXCEPT ![w] = CancelJob(j.key, j.row, j.link) ]
          PROVE  job'[w].pc = "cancel" /\ job'[w].key = j.key /\ job'[w].row = j.row
      BY <1>0, <2>3, CancelJobFields
    <2>4. CASE cancels' = cancels
      BY <2>1, <2>4, RowlessHolds
    <2>5. CASE cancels' = [ cancels EXCEPT ![j.key][j.row].status = "succeeded" ]
      BY <1>0, <2>1, <2>5, CloseHolds
    <2>6. CASE /\ cancels' = [ cancels EXCEPT ![j.key][j.row] = Claimed(@, j.link) ]
               /\ job' = [ job EXCEPT ![w] = CancelJob(j.key, j.row, j.link) ]
      BY <1>0, <2>1, <2>3, <2>6, ClaimHolds
    <2>7. QED
      BY <2>2, <2>4, <2>5, <2>6
  <1>5. QED
    BY <1>1, <1>2, <1>3, <1>4 DEF Work

\* So does the start of a request.
LEMMA StartHolds ==
  ASSUME TypeOK, NEW w \in Workers, Start(w)
  PROVE  Holds(w)
  <1>0. \A S : Saved(S) \in [ Workers -> Jobs ]
    BY SavedFacts
  <1>1. job[w].pc \notin { "cancel", "cancelled", "uncancelled" }
    BY DEF Start, Ingest, IngestFailure, IngestSuccess, IngestLink, IngestReversal,
           Receive, Pick, PreviewRead, SweepRead, Idle
  <1>2. ASSUME NEW e \in sent, IngestSuccess(w, e) \/ IngestReversal(w, e)
        PROVE  Holds(w)
    <2> DEFINE k == e.key
               n == cases[k].link
    <2>0. k \in Cases
      BY DEF TypeOK, EventRecords
    <2>1. n \in CancelRows /\ ReversalRow \in CancelRows
      <3>1. n \in CancelRows
        BY <2>0, CaseFacts
      <3>2. ReversalRow \in CancelRows
        BY RecoveryAssumption DEF CancelRows, ReversalRow
      <3>3. QED
        BY <3>1, <3>2
    <2>2. \/ cancels' = cancels
          \/ \E r \in { n, ReversalRow } : \E S :
                /\ cancels' = [ cancels EXCEPT ![k][r] = Claimed(@, n) ]
                /\ job' = [ Saved(S) EXCEPT ![w] = CancelJob(k, r, n) ]
      BY <1>2 DEF IngestSuccess, IngestReversal
    <2> HIDE DEF k, n
    <2>3. ASSUME NEW r \in CancelRows, NEW S,
                 cancels' = [ cancels EXCEPT ![k][r] = Claimed(@, n) ],
                 job' = [ Saved(S) EXCEPT ![w] = CancelJob(k, r, n) ]
          PROVE  Holds(w)
      <3>1. job'[w].pc = "cancel" /\ job'[w].key = k /\ job'[w].row = r
        BY <1>0, <2>3, CancelJobFields
      <3>2. QED
        BY <1>1, <2>0, <2>3, <3>1, ClaimHolds
    <2>4. QED
      BY <1>1, <2>1, <2>2, <2>3, RowlessHolds
  <1>3. ASSUME ~\E e \in sent : IngestSuccess(w, e) \/ IngestReversal(w, e)
        PROVE  cancels' = cancels
    BY <1>3 DEF Start, Ingest, IngestFailure, IngestLink, Pick, PreviewRead, SweepRead, db
  <1>4. QED
    BY <1>1, <1>2, <1>3, RowlessHolds

\* No step but a crash loses a cancel that is in flight.
LEMMA NextFlights == TypeInv /\ Flights /\ [Next]_vars => Flights'
  <1> SUFFICES ASSUME TypeInv, Flights, [Next]_vars PROVE Flights'
    OBVIOUS
  <1>0. TypeOK /\ crashes \in Nat
    BY DEF TypeInv, TypeOK
  <1>1. ASSUME NEW w \in Workers, Work(w) \/ Start(w)
        PROVE  Flights'
    <2>1. Holds(w) /\ \A v \in Workers \ { w } : JobKept(v)
      BY <1>0, <1>1, WorkHolds, StartHolds, WorkKeepsJobs, StartKeepsJobs
    <2>2. \A v \in Workers \ { w } : \A k, r : Flies(job[v], k, r) => Flies(job'[v], k, r)
      BY <2>1 DEF JobKept, Kept, Flies
    <2>3. crashes' = crashes
      BY <1>1 DEF Work, Consider, Commit, ClaimCreate, ProviderCreates, ProviderRefuses,
                  RecordUncreated, RecordCreated, Supersede, CancelCall, RecordCancelled,
                  RecordUncancelled, Sweep, PreviewSave, Start, Ingest, IngestFailure,
                  IngestSuccess, IngestLink, IngestReversal, Receive, Pick, PreviewRead,
                  SweepRead, bounded
    <2>4. ASSUME crashes = 0, NEW k \in Cases, NEW r \in CancelRows,
                 cancels'[k][r].status = "started"
          PROVE  \E v \in Workers : Flies(job'[v], k, r)
      <3>1. CASE Flies(job'[w], k, r)
        BY <3>1
      <3>2. CASE cancels[k][r].status = "started" /\ ~Flies(job[w], k, r)
        <4>1. PICK v \in Workers : Flies(job[v], k, r)
          BY <2>4, <3>2 DEF Flights
        <4>2. v # w
          BY <3>2, <4>1
        <4>3. QED
          BY <2>2, <4>1, <4>2
      <3>3. QED
        BY <2>1, <2>4, <3>1, <3>2 DEF Holds
    <2>5. QED
      BY <2>3, <2>4 DEF Flights
  <1>2. ASSUME cancels' = cancels, crashes' = crashes,
               \A v \in Workers : \A k, r : Flies(job[v], k, r) => Flies(job'[v], k, r)
        PROVE  Flights'
    BY <1>2 DEF Flights
  <1>3. CASE Operator
    <2>1. cancels' = cancels /\ crashes' = crashes /\ \E S : job' = Saved(S)
      BY <1>3 DEF Operator, Reopen
    <2>2. \A v \in Workers : \A k, r : Flies(job[v], k, r) => Flies(job'[v], k, r)
      BY <1>0, <2>1, SavedFacts DEF Flies
    <2>3. QED
      BY <1>2, <2>1, <2>2
  <1>4. CASE Environment \/ UNCHANGED vars
    <2>1. cancels' = cancels /\ crashes' = crashes /\ job' = job
      BY <1>4 DEF Environment, Decline, Authorise, Capture, PayLink, CloseLink,
                  Reverse, Tick, vars, db, bounded
    <2>2. QED
      BY <1>2, <2>1
  <1>5. CASE Crash
    BY <1>0, <1>5 DEF Crash, Flights
  <1>6. QED
    BY <1>1, <1>3, <1>4, <1>5 DEF Next

\* At first no cancel row is started.
LEMMA InitFlights == Init => Flights
  BY DEF Init, Flights

-----------------------------------------------------------------------------
(* The theorems *)

\* Every "recovered" case is money: a case recovered by itself has its
\* original payment captured, one recovered by link has that link paid,
\* however webhooks are lost, repeated or reordered (metrics() counts them).
THEOREM RecoveriesAreCollected == Spec => []RecoveredMeansCollected
  <1>1. ASSUME TypeInv, SettleInv
        PROVE  RecoveredMeansCollected
    <2> SUFFICES ASSUME NEW k \in Cases
                 PROVE  /\ cases[k].state = "recovered_natural" => pay[k] = "captured"
                        /\ cases[k].state = "recovered_by_link" =>
                             \E n \in Links : cases[k].link = n /\ plink[k][n] = "paid"
      BY DEF RecoveredMeansCollected
    <2>1. RowFine(cases[k], Bond(k), pay[k])
      BY <1>1 DEF SettleInv, BooksFine, Fine
    <2>2. cases[k].link = 1 => 1 \in Links
      BY <1>1, CaseFacts, RecoveryAssumption DEF TypeInv, Links
    <2>3. QED
      BY <2>1, <2>2 DEF RowFine, Bond
  <1>2. QED
    BY <1>1, SettleInvariant, TypeInvariant, PTL

\* Every parked case tells the operator why it was parked.
THEOREM ParkedIsExplained == Spec => []ParkedHasReason
  <1>1. SettleInv => ParkedHasReason
    BY DEF SettleInv, BooksFine, Fine, RowFine, ParkedHasReason
  <1>2. QED
    BY <1>1, SettleInvariant, PTL

\* A stored draft points at the live link of a case that waits for its
\* customer, although create_outreach_preview writes it in a transaction of
\* its own after it read the case.
THEOREM PreviewsPointAtLiveLinks == Spec => []PreviewOnlyForLiveLink
  <1>1. SettleInv => PreviewOnlyForLiveLink
    BY DEF SettleInv, BooksFine, Fine, RowFine, PreviewOnlyForLiveLink,
           HasCancellableLink, CancellableLinkStatuses, NoLink
  <1>2. QED
    BY <1>1, SettleInvariant, PTL

\* The published link of an invoice is its first, and so is every link on its
\* ledger.
LEMMA LiveLink ==
  ASSUME TypeInv, CreateInv, SettleInv, NEW k \in Cases, NEW n \in Links,
         plink[k][n] = "issued", cases[k].link = n,
         cases[k].state \in SettledStates
  PROVE  /\ n = 1
         /\ \A r \in CancelRows : /\ cancels[k][r].status # "none" => cancels[k][r].link = n
                                  /\ cancels[k][r].status = "failed" => cases[k].recon
         /\ \A w \in Workers : job[w].pc \in { "cancel", "cancelled", "uncancelled" }
                               /\ job[w].key = k => job[w].link = n
         /\ \E r \in CancelRows : cancels[k][r].status \in { "started", "failed" }
  <1>0. TypeOK
    BY DEF TypeInv
  <1>1. n = 1 /\ \A m \in 1 .. created[k] : m = 1
    BY <1>0, LinkIsOne DEF Links, NoLink
  <1>2. LedgerFine(cases[k], cancels[k], "issued")
    BY <1>1 DEF SettleInv, BooksFine, Fine, Bond
  <1>3. \A w \in Workers : job[w].pc \in { "cancel", "cancelled", "uncancelled" }
                           /\ job[w].key = k => job[w].link = n
    BY <1>0, <1>1, JobFacts DEF JobOK, HoldsLink
  <1>4. \A r \in CancelRows : cancels[k][r].status # "none" => cancels[k][r].link = n
    BY <1>0, <1>1, CaseFacts
  <1>5. QED
    BY <1>1, <1>2, <1>3, <1>4 DEF LedgerFine

\* Even across crashes, a link that can still be paid on a settled invoice
\* has an open cancel row: the debt of _execute_cancel is on record.
THEOREM DebtIsOnRecord == Spec => []LiveLinkHasCancelRow
  <1>1. TypeInv /\ CreateInv /\ SettleInv => LiveLinkHasCancelRow
    BY LiveLink DEF LiveLinkHasCancelRow
  <1>2. QED
    BY <1>1, SettleInvariant, TypeInvariant, PTL

\* Until the first crash, such a link is being revoked by a worker, or its
\* cancel failed and the case is flagged for reconciliation.
THEOREM LiveLinksAreAccountedFor == Spec => [](crashes = 0 => LiveLinkIsAccountedFor)
  <1>1. TypeInv /\ CreateInv /\ SettleInv /\ Flights =>
          (crashes = 0 => LiveLinkIsAccountedFor)
    <2> SUFFICES ASSUME TypeInv, CreateInv, SettleInv, Flights, crashes = 0,
                        NEW k \in Cases, NEW n \in Links, plink[k][n] = "issued",
                        cases[k].link = n, cases[k].state \in SettledStates
                 PROVE  \/ CancelInFlight(k, n)
                        \/ /\ cases[k].recon
                           /\ \E r \in CancelRows : cancels[k][r].status = "failed"
                                                    /\ cancels[k][r].link = n
      BY DEF LiveLinkIsAccountedFor
    <2>1. PICK r \in CancelRows : cancels[k][r].status \in { "started", "failed" }
      BY LiveLink
    <2>2. CASE cancels[k][r].status = "started"
      <3>1. PICK w \in Workers : Flies(job[w], k, r)
        BY <2>2 DEF Flights
      <3>2. QED
        BY <3>1, LiveLink DEF Flies, CancelInFlight
    <2>3. CASE cancels[k][r].status = "failed"
      BY <2>3, LiveLink
    <2>4. QED
      BY <2>1, <2>2, <2>3
  <1>2. QED
    BY <1>1, InitFlights, NextFlights, SettleInvariant, TypeInvariant, PTL DEF Spec

\* The operator's reconciliation flag goes away only when the published link
\* is really revoked at the provider.
THEOREM ClearedFlagsAreTrue == Spec => FlagClearedMeansRevoked
  <1>1. TypeInv /\ CreateInv /\ SettleInv /\ [Next]_vars =>
          [ \A k \in Cases : cases[k].recon /\ ~cases'[k].recon =>
              plink[k][cases[k].link] = "cancelled" ]_vars
    <2> SUFFICES ASSUME TypeInv, CreateInv, SettleInv, [Next]_vars, NEW k \in Cases,
                        cases[k].recon, ~cases'[k].recon
                 PROVE  plink[k][cases[k].link] = "cancelled"
      OBVIOUS
    <2>1. Onward(cases[k], cases'[k], Bond(k)) \/ Published(k)
      BY NextBooks DEF BookStep
    <2>2. QED
      BY <2>1 DEF Onward, Published, Bond
  <1>2. QED
    BY <1>1, SettleInvariant, TypeInvariant, PTL DEF Spec, FlagClearedMeansRevoked

=============================================================================
