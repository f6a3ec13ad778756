----------------------------- MODULE CaseProofs -----------------------------
(***************************************************************************)
(* What the functions of a case row return, for every row, every event and *)
(* all settings.                                                           *)
(***************************************************************************)
EXTENDS CaseHandlers, TLAPS

\* An event as the normaliser hands it to ingest().
EventOK(e) ==
    /\ e.type \in EventTypes /\ e.at \in Time
    /\ e.code \in FailureCodes \cup { "none" }
    /\ e.amount \in BOOLEAN /\ e.captured \in BOOLEAN /\ e.link \in Nat

-----------------------------------------------------------------------------
(* The functions of the case row return case rows *)

\* A new case and the absent one are well formed.
LEMMA CaseConstants == NewCase \in CaseRecords /\ AbsentCase \in CaseRecords
  BY DEF NewCase, AbsentCase, CaseRecords, States, FailureCodes, HardFailures,
         RiskFailures, TransientFailures, FailureClasses, LinkStatuses, Reasons,
         Time, NoTime, NoLink

\* classify_failure answers with a failure class.
LEMMA ClassifyType == \A code : ClassifyFailure(code) \in FailureClasses
  BY DEF ClassifyFailure, FailureClasses

\* decide() answers with a state, a reason and a deadline, and the deadline
\* is there exactly when the state is a timed one.
LEMMA DecideType ==
  ASSUME NEW c \in CaseRecords, NEW t \in Time, NEW degraded \in BOOLEAN
  PROVE  /\ Decide(c, t, degraded) \in Decisions
         /\ Decide(c, t, degraded).state \in TimedStates
              <=> Decide(c, t, degraded).due # NoTime
         /\ Decide(c, t, degraded).state \in
              TimedStates \cup ParkedStates \cup { "consent_required" }
  BY DurationsAssumption
     DEF Decide, Decision, Decisions, States, Reasons, Time, NoTime, TimedStates,
         ParkedStates

\* A row stays a row when one field is given a value of its type.
LEMMA FieldSet ==
  ASSUME NEW g \in CaseRecords
  PROVE  /\ \A x \in States : [ g EXCEPT !.state = x ] \in CaseRecords
         /\ \A x \in FailureCodes \cup { "none" } : [ g EXCEPT !.code = x ] \in CaseRecords
         /\ \A x \in FailureClasses \cup { "none" } :
              [ g EXCEPT !.class = x ] \in CaseRecords
         /\ \A x \in Nat : /\ [ g EXCEPT !.attempts = x ] \in CaseRecords
                           /\ [ g EXCEPT !.link = x ] \in CaseRecords
                           /\ [ g EXCEPT !.contacts = x ] \in CaseRecords
         /\ \A x \in LinkStatuses : [ g EXCEPT !.lstat = x ] \in CaseRecords
         /\ \A x \in Time \cup { NoTime } : /\ [ g EXCEPT !.due = x ] \in CaseRecords
                                           /\ [ g EXCEPT !.last = x ] \in CaseRecords
         /\ \A x \in Reasons : [ g EXCEPT !.reason = x ] \in CaseRecords
         /\ \A x \in BOOLEAN : /\ [ g EXCEPT !.amount = x ] \in CaseRecords
                               /\ [ g EXCEPT !.preview = x ] \in CaseRecords
                               /\ [ g EXCEPT !.recon = x ] \in CaseRecords
                               /\ [ g EXCEPT !.reversed = x ] \in CaseRecords
                               /\ [ g EXCEPT !.optout = x ] \in CaseRecords
  BY DEF CaseRecords

\* The groups of fields that the handlers write together: an attempt that is
\* only counted, one that is classified too, a decision, the status of the
\* link, a flag for the operator.
CountedRow(g, n, b) == [ g EXCEPT !.attempts = n, !.amount = b ]
SeenRow(g, f, k, b, n) ==
    [ g EXCEPT !.code = f, !.class = k, !.amount = b, !.attempts = n ]
DecidedRow(g, s, u, r) == [ g EXCEPT !.state = s, !.due = u, !.reason = r ]
MarkedRow(g, b, x) == [ g EXCEPT !.preview = b, !.lstat = x ]
FlaggedRow(g, b, r) == [ g EXCEPT !.recon = b, !.reason = r ]

\* A counted attempt leaves a row, its link and its state.
LEMMA CountedRowType ==
  ASSUME NEW g \in CaseRecords, NEW n \in Nat, NEW b \in BOOLEAN
  PROVE  LET h == CountedRow(g, n, b)
         IN /\ h \in CaseRecords
            /\ h.link = g.link /\ h.state = g.state /\ h.attempts = n
            /\ h.due = g.due
  <1>1. CountedRow(g, n, b)
          = [ [ g EXCEPT !.attempts = n ] EXCEPT !.amount = b ]
    BY DEF CountedRow
  <1>2. [ [ g EXCEPT !.attempts = n ] EXCEPT !.amount = b ]
          \in CaseRecords
    BY FieldSet
  <1>3. CountedRow(g, n, b) \in CaseRecords
    BY <1>1, <1>2
  <1>4. QED
    BY <1>3 DEF CaseRecords, CountedRow

\* So does one that is classified.
LEMMA SeenRowType ==
  ASSUME NEW g \in CaseRecords, NEW f \in FailureCodes \cup { "none" },
         NEW k \in FailureClasses, NEW b \in BOOLEAN, NEW n \in Nat
  PROVE  LET h == SeenRow(g, f, k, b, n)
         IN /\ h \in CaseRecords
            /\ h.link = g.link /\ h.state = g.state /\ h.attempts = n
            /\ h.due = g.due
  <1>0. SeenRow(g, f, k, b, n)
          = [ [ g EXCEPT !.code = f ] EXCEPT !.class = k, !.amount = b, !.attempts = n ]
    BY DEF SeenRow
  <1>1. [ [ g EXCEPT !.code = f ] EXCEPT !.class = k, !.amount = b, !.attempts = n ]
          = [ [ [ [ g EXCEPT !.code = f ] EXCEPT !.class = k ]
                  EXCEPT !.amount = b ] EXCEPT !.attempts = n ]
    OBVIOUS
  <1>2. [ [ [ [ g EXCEPT !.code = f ] EXCEPT !.class = k ]
             EXCEPT !.amount = b ] EXCEPT !.attempts = n ]
          \in CaseRecords
    BY FieldSet
  <1>3. SeenRow(g, f, k, b, n) \in CaseRecords
    BY <1>0, <1>1, <1>2
  <1>4. QED
    BY <1>3 DEF CaseRecords, SeenRow

\* A decision moves the row and keeps its link and its attempts.
LEMMA DecidedRowType ==
  ASSUME NEW g \in CaseRecords, NEW s \in States,
         NEW u \in Time \cup { NoTime }, NEW r \in Reasons
  PROVE  LET h == DecidedRow(g, s, u, r)
         IN /\ h \in CaseRecords
            /\ h.link = g.link /\ h.state = s /\ h.attempts = g.attempts
  <1>1. DecidedRow(g, s, u, r)
          = [ [ [ g EXCEPT !.state = s ] EXCEPT !.due = u ] EXCEPT !.reason = r ]
    BY DEF DecidedRow
  <1>2. [ [ [ g EXCEPT !.state = s ] EXCEPT !.due = u ] EXCEPT !.reason = r ]
          \in CaseRecords
    BY FieldSet
  <1>3. DecidedRow(g, s, u, r) \in CaseRecords
    BY <1>1, <1>2
  <1>4. QED
    BY <1>3 DEF CaseRecords, DecidedRow

\* The status of a link does not name another link.
LEMMA MarkedRowType ==
  ASSUME NEW g \in CaseRecords, NEW b \in BOOLEAN, NEW x \in LinkStatuses
  PROVE  LET h == MarkedRow(g, b, x)
         IN /\ h \in CaseRecords
            /\ h.link = g.link /\ h.state = g.state /\ h.attempts = g.attempts
  <1>1. MarkedRow(g, b, x)
          = [ [ g EXCEPT !.preview = b ] EXCEPT !.lstat = x ]
    BY DEF MarkedRow
  <1>2. [ [ g EXCEPT !.preview = b ] EXCEPT !.lstat = x ]
          \in CaseRecords
    BY FieldSet
  <1>3. MarkedRow(g, b, x) \in CaseRecords
    BY <1>1, <1>2
  <1>4. QED
    BY <1>3 DEF CaseRecords, MarkedRow

\* A flag moves nothing.
LEMMA FlaggedRowType ==
  ASSUME NEW g \in CaseRecords, NEW b \in BOOLEAN, NEW r \in Reasons
  PROVE  LET h == FlaggedRow(g, b, r)
         IN /\ h \in CaseRecords
            /\ h.link = g.link /\ h.state = g.state /\ h.attempts = g.attempts
  <1>1. FlaggedRow(g, b, r)
          = [ [ g EXCEPT !.recon = b ] EXCEPT !.reason = r ]
    BY DEF FlaggedRow
  <1>2. [ [ g EXCEPT !.recon = b ] EXCEPT !.reason = r ]
          \in CaseRecords
    BY FieldSet
  <1>3. FlaggedRow(g, b, r) \in CaseRecords
    BY <1>1, <1>2
  <1>4. QED
    BY <1>3 DEF CaseRecords, FlaggedRow

\* The row that a failure finds, or opens.
FoundRow(c, e) == IF c.state = "absent"
                  THEN [ NewCase EXCEPT !.amount = e.amount ] ELSE c

\* It is a row, and a new one is open, without attempts and without a link.
LEMMA FoundRowType ==
  ASSUME NEW c \in CaseRecords, NEW e, EventOK(e)
  PROVE  /\ FoundRow(c, e) \in CaseRecords
         /\ c.state # "absent" => FoundRow(c, e) = c
         /\ c.state = "absent" => /\ FoundRow(c, e).state = "open"
                                  /\ FoundRow(c, e).attempts = 0
                                  /\ FoundRow(c, e).link = NoLink
         /\ FoundRow(c, e).state \in States
  <1> DEFINE f == [ NewCase EXCEPT !.amount = e.amount ]
  <1>1. /\ NewCase \in CaseRecords /\ NewCase.state = "open"
        /\ NewCase.attempts = 0 /\ NewCase.link = NoLink
    BY CaseConstants DEF NewCase
  <1>2. /\ f \in CaseRecords /\ f.state = "open"
        /\ f.attempts = 0 /\ f.link = NoLink
    <2>1. e.amount \in BOOLEAN
      BY DEF EventOK
    <2>2. ASSUME NEW g \in CaseRecords, NEW b \in BOOLEAN
          PROVE  LET h == [ g EXCEPT !.amount = b ]
                 IN /\ h \in CaseRecords /\ h.state = g.state
                    /\ h.attempts = g.attempts /\ h.link = g.link
      BY DEF CaseRecords
    <2>3. QED
      BY <1>1, <2>1, <2>2
  <1> HIDE DEF f
  <1>3. FoundRow(c, e) = IF c.state = "absent" THEN f ELSE c
    BY DEF FoundRow, f
  <1>4. c.state # "absent" => c.state \in States
    BY DEF CaseRecords
  <1>5. QED
    BY <1>2, <1>3, <1>4 DEF States

\* _handle_failure_event returns a case row, which keeps its link.
LEMMA FailureRow ==
  ASSUME NEW c \in CaseRecords, NEW e, EventOK(e), NEW degraded \in BOOLEAN
  PROVE  /\ HandleFailure(c, e, degraded) \in CaseRecords
         /\ HandleFailure(c, e, degraded).link = c.link \/
              (c.state = "absent" /\ HandleFailure(c, e, degraded).link = NoLink)
  <1> DEFINE d0 == FoundRow(c, e)
             code == IF e.code # "none" THEN e.code ELSE d0.code
             k == ClassifyFailure(code)
             am == d0.amount \/ e.amount
             n == d0.attempts + 1
             seen == SeenRow(d0, code, k, am, n)
             d == Decide(seen, e.at, degraded)
             r == IF d.state \in ParkedStates THEN d.reason ELSE "none"
  <1>1. d0 \in CaseRecords /\ (d0.link = c.link \/ (c.state = "absent" /\ d0.link = NoLink))
    BY FoundRowType
  <1>2. /\ code \in FailureCodes \cup { "none" } /\ k \in FailureClasses
        /\ am \in BOOLEAN /\ n \in Nat
    <2> HIDE DEF d0
    <2>1. d0.attempts \in Nat /\ d0.code \in FailureCodes \cup { "none" }
      BY <1>1 DEF CaseRecords
    <2>2. QED
      BY <2>1, ClassifyType DEF EventOK
  <1>3. HandleFailure(c, e, degraded) \in
          { d0, CountedRow(d0, n, am), seen, DecidedRow(seen, d.state, d.due, r) }
    BY DEF HandleFailure, FoundRow, CountedRow, SeenRow, DecidedRow
  <1> HIDE DEF d0, code, k, am, n
  <1>4. /\ CountedRow(d0, n, am) \in CaseRecords /\ CountedRow(d0, n, am).link = d0.link
        /\ seen \in CaseRecords /\ seen.link = d0.link
    BY <1>1, <1>2, CountedRowType, SeenRowType
  <1> HIDE DEF seen
  <1>5. d \in Decisions
    BY <1>4, DecideType DEF EventOK
  <1>6. d.state \in States /\ d.due \in Time \cup { NoTime } /\ r \in Reasons
    BY <1>5 DEF Decisions, Reasons
  <1> HIDE DEF d, r
  <1>7. /\ DecidedRow(seen, d.state, d.due, r) \in CaseRecords
        /\ DecidedRow(seen, d.state, d.due, r).link = seen.link
    BY <1>4, <1>6, DecidedRowType
  <1>8. QED
    BY <1>1, <1>3, <1>4, <1>7

\* _handle_success_event returns a case row, which keeps its link.
LEMMA SuccessRow ==
  ASSUME NEW c \in CaseRecords, NEW e, EventOK(e), NEW scheduled \in BOOLEAN
  PROVE  /\ HandleSuccess(c, e, scheduled) \in CaseRecords
         /\ HandleSuccess(c, e, scheduled).link = c.link
  <1> DEFINE s == IF IsCapture(e) THEN "recovered_natural"
                  ELSE "authorized_pending_capture"
             r == IF IsCapture(e) THEN "original_payment_captured"
                  ELSE "late_authorisation_pending_capture"
             b == c.preview /\ ~scheduled
             h == DecidedRow(c, s, NoTime, r)
  <1>1. s \in States /\ r \in Reasons /\ b \in BOOLEAN /\ NoTime \in Time \cup { NoTime }
    BY DEF States, Reasons
  <1>2. HandleSuccess(c, e, scheduled) =
          [ c EXCEPT !.state = s, !.reason = r, !.due = NoTime, !.preview = b ]
    BY DEF HandleSuccess
  <1> HIDE DEF s, r, b
  <1>3. HandleSuccess(c, e, scheduled) = [ h EXCEPT !.preview = b ]
    BY <1>2 DEF DecidedRow
  <1> HIDE DEF h
  <1>4. h \in CaseRecords /\ h.link = c.link
    BY <1>1, DecidedRowType DEF h
  <1>5. QED
    BY <1>1, <1>3, <1>4 DEF CaseRecords

\* _handle_link_event returns a case row, which keeps its link.
LEMMA LinkRow ==
  ASSUME NEW c \in CaseRecords, NEW e, EventOK(e)
  PROVE  HandleLink(c, e) \in CaseRecords /\ HandleLink(c, e).link = c.link
  <1> DEFINE d == LinkTarget(c, e)
             s == d.state
             r == d.reason
             marked == MarkedRow(c, FALSE, LinkStatusOf(e))
             late == "late_link_event_requires_reconciliation"
             odd == "unexpected_link_event"
  <1>1. s \in States \cup { "none" } /\ r \in Reasons
    BY DEF LinkTarget, Decision, States, Reasons
  <1>2. HandleLink(c, e) \in { FlaggedRow(c, TRUE, late), marked,
                               FlaggedRow(marked, TRUE, odd) }
        \/ (s # "none" /\ HandleLink(c, e) = DecidedRow(marked, s, NoTime, r))
    BY DEF HandleLink, FlaggedRow, MarkedRow, DecidedRow
  <1>3. /\ LinkStatusOf(e) \in LinkStatuses /\ late \in Reasons /\ odd \in Reasons
        /\ NoTime \in Time \cup { NoTime }
    BY DEF LinkStatusOf, LinkStatuses, Reasons
  <1> HIDE DEF d, s, r, late, odd
  <1>4. marked \in CaseRecords /\ marked.link = c.link
    BY <1>3, MarkedRowType
  <1> HIDE DEF marked
  <1>5. /\ FlaggedRow(c, TRUE, late) \in CaseRecords
        /\ FlaggedRow(c, TRUE, late).link = c.link
        /\ FlaggedRow(marked, TRUE, odd) \in CaseRecords
        /\ FlaggedRow(marked, TRUE, odd).link = c.link
    BY <1>3, <1>4, FlaggedRowType
  <1>6. ASSUME s # "none"
        PROVE  /\ DecidedRow(marked, s, NoTime, r) \in CaseRecords
               /\ DecidedRow(marked, s, NoTime, r).link = c.link
    <2>1. s \in States
      BY <1>1, <1>6
    <2>2. QED
      BY <1>1, <1>3, <1>4, <2>1, DecidedRowType
  <1>7. QED
    BY <1>2, <1>4, <1>5, <1>6

\* _handle_reversal_event returns a case row, which keeps its link.
LEMMA HandleReversalType ==
  ASSUME NEW c \in CaseRecords
  PROVE  HandleReversal(c) \in CaseRecords /\ HandleReversal(c).link = c.link
  <1> DEFINE s == IF CanTransition(c.state, "recovery_reversed")
                  THEN "recovery_reversed" ELSE c.state
             f == [ [ [ c EXCEPT !.optout = TRUE ] EXCEPT !.reversed = TRUE ]
                      EXCEPT !.recon = TRUE ]
  <1>1. f \in CaseRecords /\ f.link = c.link
    <2>1. f \in CaseRecords
      BY FieldSet
    <2>2. QED
      BY <2>1 DEF CaseRecords
  <1>2. HandleReversal(c) = [ f EXCEPT !.state = s ]
    BY DEF HandleReversal
  <1>3. s \in States \cup { "absent" }
    BY DEF States, CaseRecords
  <1> HIDE DEF s, f
  <1>4. QED
    BY <1>1, <1>2, <1>3 DEF CaseRecords

\* reopen returns a case row, which keeps its link.
LEMMA ReopenedType ==
  ASSUME NEW c \in CaseRecords, NEW class \in FailureClasses \cup { "none" },
         NEW t \in Time, NEW degraded \in BOOLEAN
  PROVE  /\ Reopened(c, class, t, degraded) \in CaseRecords
         /\ Reopened(c, class, t, degraded).link = c.link
  <1> DEFINE f == [ c EXCEPT !.class = IF class # "none" THEN class ELSE @ ]
             g == [ f EXCEPT !.attempts = 0 ]
             d == Decide(g, t, degraded)
             s == IF CanTransition(g.state, d.state) THEN d.state ELSE g.state
             r == IF d.state \in ParkedStates THEN d.reason ELSE "none"
  <1>1. f \in CaseRecords /\ f.link = c.link
    BY DEF CaseRecords
  <1>2. Reopened(c, class, t, degraded) =
          [ [ [ g EXCEPT !.state = s ] EXCEPT !.reason = r ] EXCEPT !.due = d.due ]
    BY DEF Reopened
  <1> HIDE DEF f
  <1>3. g \in CaseRecords /\ g.link = c.link
    BY <1>1 DEF CaseRecords
  <1> HIDE DEF g
  <1>4. d \in Decisions
    BY <1>3, DecideType
  <1>5. s \in States \cup { "absent" } /\ r \in Reasons /\ d.due \in Time \cup { NoTime }
    BY <1>3, <1>4 DEF CaseRecords, Decisions, Reasons
  <1> DEFINE h == [ g EXCEPT !.state = s ]
             i == [ h EXCEPT !.reason = r ]
  <1> HIDE DEF d, s, r
  <1>6. h \in CaseRecords /\ h.link = c.link
    BY <1>3, <1>5 DEF CaseRecords
  <1> HIDE DEF h
  <1>7. i \in CaseRecords /\ i.link = c.link
    BY <1>5, <1>6 DEF CaseRecords
  <1> HIDE DEF i
  <1>8. [ i EXCEPT !.due = d.due ] \in CaseRecords /\ [ i EXCEPT !.due = d.due ].link = c.link
    BY <1>5, <1>7 DEF CaseRecords
  <1>9. QED
    BY <1>2, <1>8 DEF h, i

\* _commit_state writes a case row, which keeps its link.
LEMMA CommittedType ==
  ASSUME NEW c \in CaseRecords, NEW d \in Decisions
  PROVE  Committed(c, d) \in CaseRecords /\ Committed(c, d).link = c.link
  <1> DEFINE r == IF d.state \in ParkedStates THEN d.reason ELSE c.reason
  <1>1. Committed(c, d) = DecidedRow(c, d.state, d.due, r)
    BY DEF Committed, DecidedRow
  <1>2. d.state \in States /\ d.due \in Time \cup { NoTime } /\ r \in Reasons
    BY DEF Decisions, CaseRecords
  <1> HIDE DEF r
  <1>3. QED
    BY <1>1, <1>2, DecidedRowType

\* The success transaction of _create_recovery_link writes a case row.
LEMMA LinkSentType ==
  ASSUME NEW c \in CaseRecords, NEW n \in Nat, NEW t \in Time
  PROVE  LinkSent(c, n, t) \in CaseRecords /\ LinkSent(c, n, t).link = n
  <1> DEFINE x == EffectiveContacts(c, t) + 1
             f == [ c EXCEPT !.contacts = x ]
             g == [ f EXCEPT !.last = t ]
             h == [ g EXCEPT !.link = n ]
             i == [ h EXCEPT !.lstat = "issued" ]
             j == [ i EXCEPT !.state = "link_sent" ]
  <1>1. x \in Nat
    BY DEF EffectiveContacts, CaseRecords
  <1>2. LinkSent(c, n, t) = [ j EXCEPT !.due = NoTime ]
    BY DEF LinkSent, RecordContact
  <1>3. "issued" \in LinkStatuses /\ "link_sent" \in States
        /\ NoTime \in Time \cup { NoTime } /\ t \in Time \cup { NoTime }
    BY DEF LinkStatuses, States
  <1> HIDE DEF x
  <1>4. f \in CaseRecords
    BY <1>1 DEF CaseRecords
  <1> HIDE DEF f
  <1>5. g \in CaseRecords
    BY <1>3, <1>4 DEF CaseRecords
  <1> HIDE DEF g
  <1>6. h \in CaseRecords /\ h.link = n
    BY <1>5 DEF CaseRecords
  <1> HIDE DEF h
  <1>7. i \in CaseRecords /\ i.link = n
    BY <1>3, <1>6 DEF CaseRecords
  <1> HIDE DEF i
  <1>8. j \in CaseRecords /\ j.link = n
    BY <1>3, <1>7 DEF CaseRecords
  <1> HIDE DEF j
  <1>9. QED
    BY <1>2, <1>3, <1>8 DEF CaseRecords

\* The success transaction of _execute_cancel writes a case row.
LEMMA CancelRecordedType ==
  ASSUME NEW c \in CaseRecords, NEW status \in LinkStatuses
  PROVE  /\ CancelRecorded(c, status) \in CaseRecords
         /\ CancelRecorded(c, status).link = c.link
  <1> DEFINE b == CancelRecorded(c, status).recon
             r == CancelRecorded(c, status).reason
             g == MarkedRow(c, FALSE, status)
  <1>1. CancelRecorded(c, status) = FlaggedRow(g, b, r)
    BY DEF CancelRecorded, FlaggedRow, MarkedRow, CaseRecords
  <1>2. b \in BOOLEAN /\ r \in Reasons
    BY DEF CancelRecorded, CaseRecords, Reasons
  <1> HIDE DEF b, r
  <1>3. g \in CaseRecords /\ g.link = c.link
    BY MarkedRowType
  <1> HIDE DEF g
  <1>4. QED
    BY <1>1, <1>2, <1>3, FlaggedRowType

-----------------------------------------------------------------------------
(* What an event does to a row *)

\* States from which no webhook leads back to waiting for consent.
BeyondConsent == { "link_sent", "authorized_pending_capture", "manual_review" }
                 \cup FinalStates

\* A failure is counted unless the case is closed; a case beyond consent stays
\* where it is, and no case is ever absent again.
LEMMA FailureCounts ==
  ASSUME NEW c \in CaseRecords, NEW e, EventOK(e), NEW b \in BOOLEAN,
         c.state = "absent" => c.attempts = 0
  PROVE  LET h == HandleFailure(c, e, b)
         IN /\ IsFinal(c) => h = c
            /\ ~IsFinal(c) => h.attempts = c.attempts + 1
            /\ h.state # "absent"
            /\ c.state \in BeyondConsent => h.state = c.state
  <1> DEFINE d0 == FoundRow(c, e)
             code == IF e.code # "none" THEN e.code ELSE d0.code
             k == ClassifyFailure(code)
             am == d0.amount \/ e.amount
             n == d0.attempts + 1
             seen == SeenRow(d0, code, k, am, n)
             again == CountedRow(d0, n, am)
             d == Decide(seen, e.at, b)
             s == d.state
             u == d.due
             r == IF d.state \in ParkedStates THEN d.reason ELSE "none"
             out == DecidedRow(seen, s, u, r)
             h == HandleFailure(c, e, b)
  <1>1. h = IF IsFinal(d0) THEN d0
            ELSE IF d0.state \in AlreadyActioned THEN again
            ELSE IF ~CanTransition(d0.state, s) THEN seen ELSE out
    BY DEF HandleFailure, FoundRow, CountedRow, SeenRow, DecidedRow
  <1>2. /\ c.state # "absent" => d0 = c
        /\ c.state = "absent" => d0.state = "open" /\ d0.attempts = 0
        /\ d0 \in CaseRecords /\ d0.state \in States
    BY FoundRowType
  <1>3. /\ code \in FailureCodes \cup { "none" } /\ k \in FailureClasses
        /\ am \in BOOLEAN /\ n \in Nat
    <2> HIDE DEF d0
    <2>1. d0.attempts \in Nat /\ d0.code \in FailureCodes \cup { "none" }
      BY <1>2 DEF CaseRecords
    <2>2. QED
      BY <2>1, ClassifyType DEF EventOK
  <1>4. n = c.attempts + 1
    BY <1>2
  <1> HIDE DEF d0, code, k, am, n
  <1>5. /\ seen \in CaseRecords /\ seen.state = d0.state /\ seen.attempts = n
        /\ again.state = d0.state /\ again.attempts = n
    <2>1. /\ SeenRow(d0, code, k, am, n) \in CaseRecords
          /\ SeenRow(d0, code, k, am, n).state = d0.state
          /\ SeenRow(d0, code, k, am, n).attempts = n
      BY <1>2, <1>3, SeenRowType
    <2>2. /\ CountedRow(d0, n, am).state = d0.state
          /\ CountedRow(d0, n, am).attempts = n
      BY <1>2, <1>3, CountedRowType
    <2>3. QED
      BY <2>1, <2>2
  <1> HIDE DEF seen, again
  <1>6. s \in States /\ u \in Time \cup { NoTime } /\ r \in Reasons
    <2>1. d \in Decisions
      BY <1>5, DecideType DEF EventOK
    <2>2. QED
      BY <2>1 DEF Decisions, Reasons
  <1> HIDE DEF d, s, u, r
  <1>7. out.state = s /\ out.attempts = n
    BY <1>5, <1>6, DecidedRowType
  <1> HIDE DEF out, h
  <1>8. "absent" \notin States
    BY DEF States
  <1>9. h.state \in States
    BY <1>1, <1>2, <1>4, <1>5, <1>6, <1>7
  <1>10. IsFinal(c) => h = c
    BY <1>1, <1>2 DEF IsFinal, FinalStates
  <1>11. ~IsFinal(c) => h.attempts = c.attempts + 1
    <2> SUFFICES ASSUME ~IsFinal(c) PROVE h.attempts = c.attempts + 1
      OBVIOUS
    <2>1. ~IsFinal(d0)
      BY <1>2 DEF IsFinal, FinalStates
    <2>2. QED
      BY <1>1, <1>4, <1>5, <1>7, <2>1
  <1>12. c.state \in BeyondConsent => h.state = c.state
    <2> SUFFICES ASSUME c.state \in BeyondConsent PROVE h.state = c.state
      OBVIOUS
    <2>1. d0 = c
      BY <1>2 DEF BeyondConsent, FinalStates
    <2>2. IsFinal(c) \/ c.state \in AlreadyActioned
      BY DEF BeyondConsent, AlreadyActioned, IsFinal
    <2>3. QED
      BY <1>1, <1>5, <2>1, <2>2
  <1>13. QED
    BY <1>8, <1>9, <1>10, <1>11, <1>12 DEF h

\* The other three handlers leave the attempts alone, close what they close
\* for good, and never lead back to waiting for consent.
LEMMA SuccessKeeps ==
  ASSUME NEW c \in CaseRecords, NEW e, NEW b \in BOOLEAN
  PROVE  LET h == HandleSuccess(c, e, b)
         IN h.attempts = c.attempts /\ h.state \in BeyondConsent
  BY DEF HandleSuccess, CaseRecords, BeyondConsent, FinalStates

\* A link event leaves the attempts alone and never leads back to waiting for
\* consent.
LEMMA LinkKeeps ==
  ASSUME NEW c \in CaseRecords, NEW e
  PROVE  LET h == HandleLink(c, e)
         IN /\ h.attempts = c.attempts
            /\ h.state = c.state \/ (~IsFinal(c) /\ h.state \in BeyondConsent)
  <1> DEFINE d == LinkTarget(c, e)
             x == LinkStatusOf(e)
             marked == [ c EXCEPT !.preview = FALSE, !.lstat = x ]
             s == d.state
             r == d.reason
             moved == [ marked EXCEPT !.state = s, !.reason = r, !.due = NoTime ]
             late == [ c EXCEPT !.recon = TRUE,
                                !.reason = "late_link_event_requires_reconciliation" ]
             odd == [ marked EXCEPT !.recon = TRUE, !.reason = "unexpected_link_event" ]
             h == HandleLink(c, e)
  <1>1. h = IF IsFinal(c) THEN late
            ELSE IF s = "none" THEN marked
            ELSE IF CanTransition(c.state, s) THEN moved ELSE odd
    BY DEF HandleLink
  <1>2. s = "none" \/ s \in BeyondConsent
    BY DEF LinkTarget, Decision, BeyondConsent, FinalStates
  <1> HIDE DEF d, x, s, r
  <1>3. /\ late.state = c.state /\ late.attempts = c.attempts
        /\ marked.state = c.state /\ marked.attempts = c.attempts
        /\ odd.state = c.state /\ odd.attempts = c.attempts
        /\ moved.state = s /\ moved.attempts = c.attempts
    BY DEF CaseRecords
  <1> HIDE DEF late, marked, odd, moved, h
  <1>4. QED
    BY <1>1, <1>2, <1>3 DEF h

\* A reversal leaves the attempts alone and the case where it was, or reversed.
LEMMA ReversalKeeps ==
  ASSUME NEW c \in CaseRecords
  PROVE  LET h == HandleReversal(c)
         IN /\ h.attempts = c.attempts
            /\ h.state \in { c.state, "recovery_reversed" }
  BY DEF HandleReversal, CaseRecords

-----------------------------------------------------------------------------
(* The row after any event *)

\* Which handler an event reaches, by its type and by what the row holds.
LEMMA HandledCases ==
  ASSUME NEW c, NEW e, EventOK(e), NEW b \in BOOLEAN
  PROVE  \/ e.type \in FailureEvents /\ Handled(c, e, b) = HandleFailure(c, e, b)
         \/ e.type \notin FailureEvents /\ Handled(c, e, b) = c
         \/ /\ e.type \in SuccessEvents /\ c.state # "absent" /\ ~IsFinal(c)
            /\ e.type \notin FailureEvents
            /\ Handled(c, e, b) = HandleSuccess(c, e, HasCancellableLink(c))
         \/ /\ e.type \in LinkEvents /\ e.type \notin FailureEvents
            /\ c.state # "absent" /\ Handled(c, e, b) = HandleLink(c, e)
         \/ /\ e.type \notin FailureEvents /\ c.state # "absent"
            /\ Handled(c, e, b) = HandleReversal(c)
  BY DEF Handled, EventOK, EventTypes, FailureEvents, SuccessEvents, LinkEvents,
         ReversalEvents

\* The row after an event is a row.
LEMMA HandledType ==
  ASSUME NEW c \in CaseRecords, NEW e, EventOK(e), NEW b \in BOOLEAN
  PROVE  Handled(c, e, b) \in CaseRecords
  <1>1. HasCancellableLink(c) \in BOOLEAN
    BY DEF HasCancellableLink
  <1>2. /\ HandleFailure(c, e, b) \in CaseRecords
        /\ HandleLink(c, e) \in CaseRecords
        /\ HandleReversal(c) \in CaseRecords
    BY FailureRow, LinkRow, HandleReversalType
  <1>3. HandleSuccess(c, e, HasCancellableLink(c)) \in CaseRecords
    BY <1>1, SuccessRow
  <1>4. QED
    BY <1>2, <1>3, HandledCases

\* A closed case stays closed; an open one counts exactly its failures; what
\* is beyond consent stays beyond it; a case appears with a failure only.
LEMMA HandledEffect ==
  ASSUME NEW c \in CaseRecords, NEW e, EventOK(e), NEW b \in BOOLEAN,
         c.state = "absent" => c.attempts = 0
  PROVE  LET h == Handled(c, e, b)
         IN /\ IsFinal(c) => IsFinal(h)
            /\ ~IsFinal(c) =>
                 h.attempts = c.attempts + (IF e.type \in FailureEvents THEN 1 ELSE 0)
            /\ h.state = "absent" => h.attempts = 0
            /\ c.state \in BeyondConsent => h.state \in BeyondConsent
  <1> DEFINE h == Handled(c, e, b)
  <1>0. c.attempts \in Nat /\ HasCancellableLink(c) \in BOOLEAN
        /\ "absent" \notin BeyondConsent /\ FinalStates \subseteq BeyondConsent
        /\ "recovery_reversed" \in FinalStates
    BY DEF CaseRecords, HasCancellableLink, BeyondConsent, FinalStates
  <1>1. CASE e.type \in FailureEvents /\ h = HandleFailure(c, e, b)
    <2> HIDE DEF h
    <2>1. QED BY <1>0, <1>1, FailureCounts DEF h, IsFinal
  <1>2. CASE e.type \notin FailureEvents /\ h = c
    BY <1>0, <1>2
  <1>3. CASE /\ e.type \in SuccessEvents /\ c.state # "absent" /\ ~IsFinal(c)
             /\ e.type \notin FailureEvents
             /\ h = HandleSuccess(c, e, HasCancellableLink(c))
    BY <1>0, <1>3, SuccessKeeps
  <1>4. CASE /\ e.type \in LinkEvents /\ e.type \notin FailureEvents
             /\ c.state # "absent" /\ h = HandleLink(c, e)
    BY <1>0, <1>4, LinkKeeps DEF IsFinal
  <1>5. CASE /\ e.type \notin FailureEvents /\ c.state # "absent"
             /\ h = HandleReversal(c)
    BY <1>0, <1>5, ReversalKeeps DEF IsFinal
  <1>6. QED
    BY <1>1, <1>2, <1>3, <1>4, <1>5, HandledCases

\* The route acknowledges a transition the table forbids; but a capture or an
\* authorisation finds an edge out of every state that is not closed.
LEMMA NeverForbidden ==
  ASSUME NEW c \in CaseRecords, NEW e
  PROVE  ~Forbidden(c, e)
  <1> SUFFICES ASSUME c.state # "absent", ~IsFinal(c)
               PROVE  CanTransition(c.state, HandleSuccess(c, e, FALSE).state)
    BY DEF Forbidden
  <1> DEFINE s == HandleSuccess(c, e, FALSE).state
  <1>1. s \in { "recovered_natural", "authorized_pending_capture" }
    BY DEF HandleSuccess, CaseRecords
  <1>2. c.state \in States \ FinalStates
    BY DEF CaseRecords, IsFinal
  <1> HIDE DEF s
  <1>3. CanTransition(c.state, s)
    BY <1>1, <1>2 DEF CanTransition, AllowedTransitions, States, FinalStates,
                      ReviewEdges
  <1>4. QED
    BY <1>3 DEF s

=============================================================================
