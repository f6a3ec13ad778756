--------------------------- MODULE RecoveryProofs ---------------------------
(***************************************************************************)
(* What Recovery keeps for any number of invoices, threads, links, crashes *)
(* and reopens and any settings: first type correctness (what the          *)
(* functions of a case row return, one lemma per action); then one link    *)
(* per invoice, deadlines exactly where the tick looks for them,           *)
(* transitions only along the table, closed cases that stay closed, and    *)
(* the contact budget of a customer across all of its invoices.            *)
(*                                                                         *)
(* The dispatch tick checks the budget in one step and spends it several   *)
(* steps later, and nothing in the code keeps two ticks apart: the last    *)
(* two theorems assume that whoever posts to /actions/dispatch waits for   *)
(* one answer before posting again.  With two ticks at once neither        *)
(* property holds.                                                         *)
(***************************************************************************)
EXTENDS RecoveryProps, CaseProofs, FiniteSetTheorems, WellFoundedInduction, TLAPS

-----------------------------------------------------------------------------
(* The webhook handlers, on the events of this module *)

\* The recovery model's events are what the handler lemmas ask for.
LEMMA EventsAreOK == \A e \in EventRecords : EventOK(e)
  BY DEF EventRecords, EventOK

\* _handle_failure_event returns a case row, which keeps its link.
LEMMA HandleFailureType ==
  ASSUME NEW c \in CaseRecords, NEW e \in EventRecords, NEW degraded \in BOOLEAN
  PROVE  /\ HandleFailure(c, e, degraded) \in CaseRecords
         /\ HandleFailure(c, e, degraded).link = c.link \/
              (c.state = "absent" /\ HandleFailure(c, e, degraded).link = NoLink)
  BY EventsAreOK, FailureRow

\* _handle_success_event returns a case row, which keeps its link.
LEMMA HandleSuccessType ==
  ASSUME NEW c \in CaseRecords, NEW e \in EventRecords, NEW scheduled \in BOOLEAN
  PROVE  /\ HandleSuccess(c, e, scheduled) \in CaseRecords
         /\ HandleSuccess(c, e, scheduled).link = c.link
  BY EventsAreOK, SuccessRow

\* _handle_link_event returns a case row, which keeps its link.
LEMMA HandleLinkType ==
  ASSUME NEW c \in CaseRecords, NEW e \in EventRecords
  PROVE  HandleLink(c, e) \in CaseRecords /\ HandleLink(c, e).link = c.link
  BY EventsAreOK, LinkRow

-----------------------------------------------------------------------------
(* Jobs *)

\* A job of the right shape that names a case and a link that exist.
JobOK(j) == /\ j \in Jobs
            /\ j.pc # "idle" => j.key \in Cases
            /\ j.pc \in HoldsLink => j.link \in 1 .. created[j.key]

\* What the idle job is made of.
LEMMA IdleParts ==
  /\ Decision("open", "none", NoTime) \in Decisions /\ AbsentCase \in CaseRecords
  /\ 0 \in CancelRows /\ 0 \in Time /\ NoLink \in Nat /\ "none" \in LinkStatuses
  <1>1. Decision("open", "none", NoTime) \in Decisions
    BY DEF Decision, Decisions, States, Reasons
  <1>2. 0 \in CancelRows /\ 0 \in Time /\ NoLink \in Nat /\ "none" \in LinkStatuses
    BY RecoveryAssumption DEF CancelRows, Time, NoLink, LinkStatuses
  <1>3. QED
    BY <1>1, <1>2, CaseConstants

\* The idle job is well formed.
LEMMA IdleJobOK == IdleJob \in Jobs /\ JobOK(IdleJob) /\ IdleJob.pc = "idle"
  <1>1. IdleJob \in Jobs
    BY IdleParts DEF IdleJob, Jobs
  <1>2. QED
    BY <1>1 DEF JobOK, IdleJob, HoldsLink

\* A save of any rows changes no job but for its staleness.
LEMMA SavedFacts ==
  ASSUME TypeOK, NEW S
  PROVE  /\ Saved(S) \in [ Workers -> Jobs ]
         /\ \A w \in Workers : /\ Saved(S)[w].pc = job[w].pc
                               /\ Saved(S)[w].key = job[w].key
                               /\ Saved(S)[w].link = job[w].link
                               /\ Saved(S)[w].to = job[w].to
                               /\ Saved(S)[w].row = job[w].row
                               /\ Saved(S)[w].at = job[w].at
                               /\ JobOK(Saved(S)[w])
  <1> DEFINE Stale(j) == [ j EXCEPT !.stale = TRUE ]
  <1>1. ASSUME NEW j \in Jobs
        PROVE  LET x == Stale(j)
               IN x \in Jobs /\ x.pc = j.pc /\ x.key = j.key /\ x.link = j.link
                  /\ x.to = j.to /\ x.row = j.row /\ x.at = j.at
    BY DEF Jobs
  <1>2. \A w \in Workers : Saved(S)[w] = job[w] \/ Saved(S)[w] = Stale(job[w])
    BY DEF Saved
  <1> HIDE DEF Stale
  <1>3. \A w \in Workers : job[w] \in Jobs /\ JobOK(job[w])
    BY DEF TypeOK, RefsOK, JobOK
  <1>4. \A w \in Workers : /\ Saved(S)[w] \in Jobs
                           /\ Saved(S)[w].pc = job[w].pc
                           /\ Saved(S)[w].key = job[w].key
                           /\ Saved(S)[w].link = job[w].link
                           /\ Saved(S)[w].to = job[w].to
                           /\ Saved(S)[w].row = job[w].row
                           /\ Saved(S)[w].at = job[w].at
    BY <1>1, <1>2, <1>3
  <1>5. Saved(S) \in [ Workers -> Jobs ]
    <2>1. DOMAIN Saved(S) = Workers /\ Saved(S) = [ w \in Workers |-> Saved(S)[w] ]
      BY DEF Saved
    <2>2. QED BY <1>4, <2>1
  <1>6. QED
    BY <1>3, <1>4, <1>5 DEF JobOK

-----------------------------------------------------------------------------
(* TypeOK in four parts, so that a step is checked part by part *)

CasesOK == /\ cases \in [ Cases -> CaseRecords ]
           /\ \A k \in Cases : cases[k].link <= created[k]

CancelRecords == [ status : { "none", "started", "succeeded", "failed" },
                   attempts : Nat, link : Nat ]

CancelsOK ==
    /\ cancels \in [ Cases -> [ CancelRows -> CancelRecords ] ]
    /\ \A k \in Cases, r \in CancelRows :
          cancels[k][r].status # "none" => cancels[k][r].link \in 1 .. created[k]

JobsOK == job \in [ Workers -> Jobs ] /\ \A w \in Workers : JobOK(job[w])

RestOK ==
    /\ creates \in [ Cases -> { "none", "started", "succeeded", "failed",
                                "superseded" } ]
    /\ processed \in SUBSET EventRecords
    /\ plink \in [ Cases -> [ Links -> LinkStatuses ] ]
    /\ created \in [ Cases -> 0 .. MaxLinks ]
    /\ pay \in [ Cases -> { "failed", "authorized", "captured" } ]
    /\ sent \in SUBSET EventRecords /\ IsFiniteSet(sent)
    /\ now \in Time
    /\ lock \in Workers \cup { None }
    /\ crashes \in Nat /\ reopens \in Nat

\* The parts make up TypeOK.
LEMMA TypeParts == TypeOK <=> CasesOK /\ CancelsOK /\ JobsOK /\ RestOK
  BY DEF TypeOK, RefsOK, CasesOK, CancelsOK, CancelRecords, JobsOK, JobOK, RestOK

\* The same in the next state.
LEMMA TypePartsNext == CasesOK' /\ CancelsOK' /\ JobsOK' /\ RestOK' => TypeOK'
  BY DEF TypeOK, RefsOK, CasesOK, CancelsOK, CancelRecords, JobsOK, JobOK, RestOK

\* Storing one well-formed job, or only saving rows, keeps the jobs well formed.
LEMMA JobStep ==
  ASSUME TypeOK, created' = created, NEW S, NEW w \in Workers, NEW j, JobOK(j),
         \/ job' = job
         \/ job' = Saved(S)
         \/ job' = [ job EXCEPT ![w] = j ]
         \/ job' = [ Saved(S) EXCEPT ![w] = j ]
  PROVE  JobsOK'
  <1>1. \A v \in Workers : job[v] \in Jobs /\ JobOK(job[v])
    BY TypeParts DEF JobsOK, JobOK
  <1>2. /\ Saved(S) \in [ Workers -> Jobs ] /\ job \in [ Workers -> Jobs ]
        /\ \A v \in Workers : JobOK(Saved(S)[v])
    BY SavedFacts DEF TypeOK
  <1>3. j \in Jobs
    BY DEF JobOK
  <1> HIDE DEF JobOK
  <1>4. job' \in [ Workers -> Jobs ] /\ \A v \in Workers : JobOK(job'[v])
    BY <1>1, <1>2, <1>3
  <1>5. QED
    BY <1>4 DEF JobsOK, JobOK

\* Replacing one row by a well-formed one with an existing link keeps the
\* cases well formed.
LEMMA CaseStep ==
  ASSUME TypeOK, created' = created, NEW k \in Cases, NEW c \in CaseRecords,
         c.link <= created[k], cases' = [ cases EXCEPT ![k] = c ]
  PROVE  CasesOK'
  <1>1. cases \in [ Cases -> CaseRecords ] /\ \A x \in Cases : cases[x].link <= created[x]
    BY TypeParts DEF CasesOK
  <1>2. \A x \in Cases : cases'[x] = IF x = k THEN c ELSE cases[x]
    BY <1>1
  <1>3. cases' \in [ Cases -> CaseRecords ]
    BY <1>1
  <1>4. \A x \in Cases : cases'[x].link <= created[x]
    BY <1>1, <1>2
  <1>5. QED
    BY <1>3, <1>4 DEF CasesOK

\* Replacing one cancel row by a well-formed one keeps the ledger well formed.
LEMMA CancelStep ==
  ASSUME TypeOK, created' = created, NEW k \in Cases, NEW r \in CancelRows,
         NEW x \in CancelRecords, x.status # "none" => x.link \in 1 .. created[k],
         cancels' = [ cancels EXCEPT ![k][r] = x ]
  PROVE  CancelsOK'
  <1>1. /\ cancels \in [ Cases -> [ CancelRows -> CancelRecords ] ]
        /\ \A i \in Cases, q \in CancelRows :
              cancels[i][q].status # "none" => cancels[i][q].link \in 1 .. created[i]
    BY TypeParts DEF CancelsOK
  <1>2. cancels' \in [ Cases -> [ CancelRows -> CancelRecords ] ]
    BY <1>1
  <1>3. \A i \in Cases, q \in CancelRows :
          cancels'[i][q] = IF i = k /\ q = r THEN x ELSE cancels[i][q]
    BY <1>1
  <1>4. QED
    BY <1>1, <1>2, <1>3 DEF CancelsOK

\* Parts a step leaves alone stay well formed.
LEMMA UnchangedParts ==
  ASSUME TypeOK
  PROVE  /\ cases' = cases /\ created' = created => CasesOK'
         /\ cancels' = cancels /\ created' = created => CancelsOK'
         /\ job' = job /\ created' = created => JobsOK'
         /\ creates' = creates /\ processed' = processed
            /\ provider' = provider /\ now' = now /\ lock' = lock
            /\ bounded' = bounded => RestOK'
  BY TypeParts DEF CasesOK, CancelsOK, JobsOK, JobOK, RestOK, provider, bounded

\* claim_action keeps a row well formed.
LEMMA ClaimedType ==
  ASSUME NEW row \in CancelRecords, NEW n \in Nat, NEW m \in Nat,
         row.status # "none" => row.link \in 1 .. m, n \in 1 .. m
  PROVE  /\ Claimed(row, n) \in CancelRecords
         /\ Claimed(row, n).link \in 1 .. m
  <1>1. CASE row.status = "none"
    BY <1>1 DEF Claimed, CancelRecords
  <1>2. CASE row.status # "none"
    <2> DEFINE x == row.attempts + 1
    <2>1. x \in Nat
      BY DEF CancelRecords
    <2>2. Claimed(row, n) = [ row EXCEPT !.status = "started", !.attempts = x ]
      BY <1>2 DEF Claimed
    <2> HIDE DEF x
    <2>3. QED
      BY <1>2, <2>1, <2>2 DEF CancelRecords
  <1>3. QED
    BY <1>1, <1>2

\* A pending cancel is a well-formed job.
LEMMA CancelJobOK ==
  ASSUME TypeOK, NEW k \in Cases, NEW r \in CancelRows, NEW n \in 1 .. created[k]
  PROVE  JobOK(CancelJob(k, r, n))
  <1> DEFINE x == CancelJob(k, r, n)
  <1>1. now \in Time
    BY TypeParts DEF RestOK
  <1>2. n \in Nat
    OBVIOUS
  <1>3. x \in Jobs /\ x.pc = "cancel" /\ x.key = k /\ x.link = n
    BY <1>1, <1>2, IdleParts DEF CancelJob, IdleJob, Jobs
  <1> HIDE DEF x
  <1>4. JobOK(x)
    BY <1>3 DEF JobOK, HoldsLink
  <1>5. QED
    BY <1>4 DEF x

-----------------------------------------------------------------------------
(* Every action keeps TypeOK *)

\* What every part of TypeOK says about one case.
LEMMA CaseFacts ==
  ASSUME TypeOK, NEW k \in Cases
  PROVE  /\ cases[k] \in CaseRecords /\ cases[k].link \in Nat
         /\ cases[k].link <= created[k]
         /\ created[k] \in Nat /\ created[k] <= MaxLinks
         /\ cases[k].link \in CancelRows /\ created[k] \in CancelRows
         /\ \A r \in CancelRows :
              /\ cancels[k][r] \in CancelRecords
              /\ cancels[k][r].status # "none" =>
                    cancels[k][r].link \in 1 .. created[k]
  <1>1. cases[k] \in CaseRecords /\ cases[k].link <= created[k]
    BY TypeParts DEF CasesOK
  <1>2. cases[k].link \in Nat
    BY <1>1 DEF CaseRecords
  <1>3. created[k] \in Nat /\ created[k] <= MaxLinks
    BY TypeParts, RecoveryAssumption DEF RestOK
  <1>4. \A r \in CancelRows :
          /\ cancels[k][r] \in CancelRecords
          /\ cancels[k][r].status # "none" => cancels[k][r].link \in 1 .. created[k]
    BY TypeParts DEF CancelsOK
  <1>5. QED
    BY <1>1, <1>2, <1>3, <1>4, RecoveryAssumption DEF CancelRows

\* A received webhook is a well-formed event; the parts ingest never touches.
LEMMA ReceiveFacts ==
  ASSUME TypeOK, NEW w \in Workers, NEW e \in sent, NEW F, Receive(w, e, F)
  PROVE  e \in EventRecords /\ e.key \in Cases /\ created' = created /\ RestOK'
  <1>1. e \in EventRecords
    BY TypeParts DEF RestOK
  <1>2. e.key \in Cases
    BY <1>1 DEF EventRecords
  <1>3. created' = created
    BY DEF Receive, provider
  <1>4. RestOK'
    BY <1>1, TypeParts DEF Receive, RestOK, provider, bounded
  <1>5. QED
    BY <1>1, <1>2, <1>3, <1>4

\* ingest of a failure keeps TypeOK.
LEMMA FailureKeepsType ==
  ASSUME TypeOK, NEW w \in Workers, NEW e \in sent, IngestFailure(w, e)
  PROVE  TypeOK'
  <1>1. Receive(w, e, FailureEvents)
    BY DEF IngestFailure
  <1>2. e \in EventRecords /\ e.key \in Cases /\ created' = created /\ RestOK'
    BY <1>1, ReceiveFacts
  <1>3. PICK degraded \in BOOLEAN :
          cases' = [ cases EXCEPT ![e.key] = HandleFailure(@, e, degraded) ]
    BY DEF IngestFailure
  <1> DEFINE c == HandleFailure(cases[e.key], e, degraded)
  <1>4. c \in CaseRecords /\ c.link <= created[e.key]
    BY <1>2, CaseFacts, HandleFailureType DEF NoLink
  <1> HIDE DEF c
  <1>5. CasesOK'
    BY <1>2, <1>3, <1>4, CaseStep DEF c
  <1>6. CancelsOK'
    BY <1>2, UnchangedParts DEF IngestFailure
  <1>7. JobsOK'
    BY <1>2, JobStep, IdleJobOK DEF IngestFailure
  <1>8. QED
    BY <1>2, <1>5, <1>6, <1>7, TypePartsNext

\* The row a cancel would be claimed in, when a case has a link to revoke.
LEMMA CancelClaimOK ==
  ASSUME TypeOK, NEW k \in Cases, NEW r \in CancelRows, created' = created,
         HasCancellableLink(cases[k]),
         cancels' = [ cancels EXCEPT ![k][r] = Claimed(@, cases[k].link) ]
  PROVE  CancelsOK' /\ JobOK(CancelJob(k, r, cases[k].link))
  <1> DEFINE n == cases[k].link
             x == Claimed(cancels[k][r], n)
  <1>1. n \in 1 .. created[k] /\ n \in Nat
    BY CaseFacts DEF HasCancellableLink, NoLink
  <1>2. x \in CancelRecords /\ x.link \in 1 .. created[k]
    BY <1>1, CaseFacts, ClaimedType
  <1>3. cancels' = [ cancels EXCEPT ![k][r] = x ]
    OBVIOUS
  <1> HIDE DEF x
  <1>4. CancelsOK'
    BY <1>2, <1>3, CancelStep
  <1>5. QED
    BY <1>1, <1>4, CancelJobOK

\* ingest of a success keeps TypeOK.
LEMMA SuccessKeepsType ==
  ASSUME TypeOK, NEW w \in Workers, NEW e \in sent, IngestSuccess(w, e)
  PROVE  TypeOK'
  <1> DEFINE k == e.key
             c == cases[k]
             scheduled == HasCancellableLink(c) /\ Claimable(cancels[k][c.link])
             h == HandleSuccess(c, e, scheduled)
  <1>1. Receive(w, e, SuccessEvents)
    BY DEF IngestSuccess
  <1>2. e \in EventRecords /\ k \in Cases /\ created' = created /\ RestOK'
    BY <1>1, ReceiveFacts
  <1>3. CASE UNCHANGED << cases, cancels, job >>
    BY <1>2, <1>3, UnchangedParts, TypePartsNext
  <1>4. CASE ~(c.state = "absent" \/ IsFinal(c))
    <2>1. /\ cases' = [ cases EXCEPT ![k] = h ]
          /\ cancels' = IF scheduled
                        THEN [ cancels EXCEPT ![k][c.link] = Claimed(@, c.link) ]
                        ELSE cancels
          /\ job' = IF scheduled
                    THEN [ Saved({ k }) EXCEPT ![w] = CancelJob(k, c.link, c.link) ]
                    ELSE Saved({ k })
      BY <1>4 DEF IngestSuccess
    <2>2. scheduled \in BOOLEAN
      BY DEF HasCancellableLink
    <2>3. h \in CaseRecords /\ h.link <= created[k]
      BY <1>2, <2>2, CaseFacts, HandleSuccessType
    <2> HIDE DEF h
    <2>4. CasesOK'
      BY <1>2, <2>1, <2>3, CaseStep
    <2>5. c.link \in CancelRows
      BY <1>2, CaseFacts
    <2>6. CASE scheduled
      <3>1. CancelsOK' /\ JobOK(CancelJob(k, c.link, c.link))
        BY <1>2, <2>1, <2>5, <2>6, CancelClaimOK
      <3>2. JobsOK'
        BY <1>2, <2>1, <2>6, <3>1, JobStep
      <3>3. QED
        BY <1>2, <2>4, <3>1, <3>2, TypePartsNext
    <2>7. CASE ~scheduled
      <3>1. CancelsOK'
        BY <1>2, <2>1, <2>7, UnchangedParts
      <3>2. JobsOK'
        BY <1>2, <2>1, <2>7, JobStep, IdleJobOK
      <3>3. QED
        BY <1>2, <2>4, <3>1, <3>2, TypePartsNext
    <2>8. QED
      BY <2>6, <2>7
  <1>5. QED
    BY <1>3, <1>4 DEF IngestSuccess

\* ingest of a link event keeps TypeOK.
LEMMA LinkKeepsType ==
  ASSUME TypeOK, NEW w \in Workers, NEW e \in sent, IngestLink(w, e)
  PROVE  TypeOK'
  <1> DEFINE h == HandleLink(cases[e.key], e)
  <1>1. Receive(w, e, LinkEvents) /\ cancels' = cancels
    BY DEF IngestLink
  <1>2. e \in EventRecords /\ e.key \in Cases /\ created' = created /\ RestOK'
    BY <1>1, ReceiveFacts
  <1>3. CancelsOK'
    BY <1>1, <1>2, UnchangedParts
  <1>4. CASE cases' = cases /\ job' = job
    BY <1>2, <1>3, <1>4, UnchangedParts, TypePartsNext
  <1>5. CASE cases' = [ cases EXCEPT ![e.key] = h ] /\ job' = Saved({ e.key })
    <2>1. h \in CaseRecords /\ h.link <= created[e.key]
      BY <1>2, CaseFacts, HandleLinkType
    <2> HIDE DEF h
    <2>2. CasesOK'
      BY <1>2, <1>5, <2>1, CaseStep
    <2>3. JobsOK'
      BY <1>2, <1>5, JobStep, IdleJobOK
    <2>4. QED
      BY <1>2, <1>3, <2>2, <2>3, TypePartsNext
  <1>6. QED
    BY <1>4, <1>5 DEF IngestLink

\* ingest of a reversal keeps TypeOK.
LEMMA ReversalKeepsType ==
  ASSUME TypeOK, NEW w \in Workers, NEW e \in sent, IngestReversal(w, e)
  PROVE  TypeOK'
  <1> DEFINE k == e.key
             c == cases[k]
             revoke == HasCancellableLink(c) /\ Claimable(cancels[k][ReversalRow])
             silenced == { j \in Siblings(k) : ~cases[j].optout }
  <1>1. Receive(w, e, ReversalEvents)
    BY DEF IngestReversal
  <1>2. e \in EventRecords /\ k \in Cases /\ created' = created /\ RestOK'
    BY <1>1, ReceiveFacts
  <1>3. CASE UNCHANGED << cases, cancels, job >>
    BY <1>2, <1>3, UnchangedParts, TypePartsNext
  <1>4. CASE c.state \notin { "absent", "recovery_reversed" }
    <2>1. /\ cases' = [ j \in Cases |->
                IF j = k THEN HandleReversal(c)
                ELSE IF j \in silenced THEN [ cases[j] EXCEPT !.optout = TRUE ]
                ELSE cases[j] ]
          /\ cancels' = IF revoke
                        THEN [ cancels EXCEPT ![k][ReversalRow] = Claimed(@, c.link) ]
                        ELSE cancels
          /\ job' = IF revoke
                    THEN [ Saved(silenced \cup { k }) EXCEPT
                             ![w] = CancelJob(k, ReversalRow, c.link) ]
                    ELSE Saved(silenced \cup { k })
      BY <1>4 DEF IngestReversal
    <2>2. ASSUME NEW j \in Cases
          PROVE  cases'[j] \in CaseRecords /\ cases'[j].link = cases[j].link
      <3>1. cases[j] \in CaseRecords
        BY CaseFacts
      <3>2. ASSUME NEW x \in CaseRecords
            PROVE  /\ [ x EXCEPT !.optout = TRUE ] \in CaseRecords
                   /\ [ x EXCEPT !.optout = TRUE ].link = x.link
        BY DEF CaseRecords
      <3>3. /\ j = k => cases'[j] = HandleReversal(cases[j])
            /\ j # k => cases'[j] \in { cases[j], [ cases[j] EXCEPT !.optout = TRUE ] }
        BY <2>1
      <3>4. CASE j = k
        BY <3>1, <3>3, <3>4, HandleReversalType
      <3>5. CASE j # k
        BY <3>1, <3>2, <3>3, <3>5
      <3>6. QED
        BY <3>4, <3>5
    <2>3. cases' \in [ Cases -> CaseRecords ]
      BY <2>1, <2>2
    <2>4. CasesOK'
      BY <1>2, <2>2, <2>3, TypeParts DEF CasesOK
    <2>5. ReversalRow \in CancelRows
      BY IdleParts DEF ReversalRow
    <2>6. CASE revoke
      <3>1. CancelsOK' /\ JobOK(CancelJob(k, ReversalRow, c.link))
        BY <1>2, <2>1, <2>5, <2>6, CancelClaimOK
      <3>2. JobsOK'
        BY <1>2, <2>1, <2>6, <3>1, JobStep
      <3>3. QED
        BY <1>2, <2>4, <3>1, <3>2, TypePartsNext
    <2>7. CASE ~revoke
      <3>1. CancelsOK'
        BY <1>2, <2>1, <2>7, UnchangedParts
      <3>2. JobsOK'
        BY <1>2, <2>1, <2>7, JobStep, IdleJobOK
      <3>3. QED
        BY <1>2, <2>4, <3>1, <3>2, TypePartsNext
    <2>8. QED
      BY <2>6, <2>7
  <1>5. QED
    BY <1>3, <1>4 DEF IngestReversal

\* What TypeOK says about one worker's job.
LEMMA JobFacts ==
  ASSUME TypeOK, NEW w \in Workers
  PROVE  /\ job[w] \in Jobs /\ JobOK(job[w])
         /\ job[w].snap \in CaseRecords /\ job[w].stale \in BOOLEAN
         /\ job[w].at \in Time /\ job[w].to \in Decisions
         /\ job[w].amount \in BOOLEAN /\ job[w].link \in Nat
         /\ job[w].row \in CancelRows /\ job[w].status \in LinkStatuses
         /\ job[w].pc # "idle" => job[w].key \in Cases
  <1>1. job[w] \in Jobs /\ JobOK(job[w])
    BY TypeParts DEF JobsOK
  <1>2. QED
    BY <1>1 DEF Jobs, JobOK

\* A step that only changes what one worker remembers keeps TypeOK.
LEMMA JobOnly ==
  ASSUME TypeOK, NEW w \in Workers, NEW j, JobOK(j),
         job' = [ job EXCEPT ![w] = j ],
         UNCHANGED << db, provider, now, lock, bounded >>
  PROVE  TypeOK'
  <1>1. created' = created /\ cases' = cases /\ cancels' = cancels
    BY DEF db, provider
  <1>2. CasesOK' /\ CancelsOK' /\ RestOK'
    BY <1>1, UnchangedParts DEF db
  <1>3. JobsOK'
    BY <1>1, JobStep
  <1>4. QED
    BY <1>2, <1>3, TypePartsNext

\* A dispatcher that reads a due case keeps TypeOK.
LEMMA PickKeepsType ==
  ASSUME TypeOK, NEW w \in Workers, NEW k \in Cases, Pick(w, k)
  PROVE  TypeOK'
  <1> DEFINE c == cases[k]
             j == [ IdleJob EXCEPT !.pc = "consider", !.key = k, !.snap = c,
                                   !.at = now ]
  <1>1. c \in CaseRecords /\ now \in Time
    BY CaseFacts, TypeParts DEF RestOK
  <1> HIDE DEF c
  <1>2. j \in Jobs /\ j.pc = "consider" /\ j.key = k
    BY <1>1, IdleParts DEF IdleJob, Jobs
  <1>3. job' = [ job EXCEPT ![w] = j ] /\ UNCHANGED << db, provider, now, lock, bounded >>
    BY DEF Pick, c
  <1> HIDE DEF j
  <1>4. JobOK(j)
    BY <1>2 DEF JobOK, HoldsLink
  <1>5. QED
    BY <1>3, <1>4, JobOnly

\* Every outcome of a tick is a decision: a state, a reason and a deadline
\* that is there exactly when the state is a timed one.
LEMMA OutcomeType ==
  ASSUME NEW c \in CaseRecords, NEW k, NEW t \in Time
  PROVE  LET blocked == MayContact(k, c, t)
         IN \A d \in CooldownOutcomes(t) \cup { RetryOutcome(c, blocked) }
                     \cup (IF blocked # "none" THEN { Refusal(blocked) } ELSE {}) :
              /\ d \in Decisions
              /\ d.state \in TimedStates <=> d.due # NoTime
              /\ d.state \in ParkedStates => d.reason # "none"
  <1> DEFINE blocked == MayContact(k, c, t)
             Good(d) == /\ d \in Decisions
                        /\ d.state \in TimedStates <=> d.due # NoTime
                        /\ d.state \in ParkedStates => d.reason # "none"
  <1>1. blocked \in { "none", "customer_opted_out", "contact_budget_exhausted",
                      "contact_cooldown_active" }
    BY DEF MayContact, ContactBlocked
  <1>2. \A d \in CooldownOutcomes(t) : Good(d)
    <2>1. ASSUME NEW u \in Nat
          PROVE  /\ Good(Decision("cooldown", "none", u))
                 /\ Good(Decision("retry_scheduled", "none", u))
      BY DEF Decision, Decisions, States, Reasons, Time, NoTime, TimedStates,
             ParkedStates
    <2>2. /\ t + Cooldown \in Nat /\ t + ReleaseJitter \in Nat
          /\ \A o \in 0 .. (IF ReleaseJitter = 0 THEN 0 ELSE ReleaseJitter - 1) :
               t + RetryEscalation + o \in Nat
      BY DurationsAssumption DEF Time
    <2> HIDE DEF Good
    <2>3. QED
      BY <2>1, <2>2 DEF CooldownOutcomes
  <1> HIDE DEF blocked
  <1>3. blocked # "none" => Good(Refusal(blocked))
    BY <1>1 DEF Refusal, Decision, Decisions, States, Reasons, NoTime, TimedStates,
                ParkedStates
  <1>4. Good(RetryOutcome(c, blocked))
    <2>1. /\ Good(Decision("manual_review", "retry_attempts_exhausted", NoTime))
          /\ Good(Decision("consent_required", "none", NoTime))
      BY DEF Decision, Decisions, States, Reasons, NoTime, TimedStates, ParkedStates
    <2> HIDE DEF Good
    <2>2. QED
      BY <1>3, <2>1 DEF RetryOutcome
  <1>5. QED
    BY <1>2, <1>3, <1>4 DEF blocked

\* The decision of a tick keeps TypeOK.
LEMMA ConsiderKeepsType ==
  ASSUME TypeOK, NEW w \in Workers, Consider(w)
  PROVE  TypeOK'
  <1> DEFINE j == job[w]
             blocked == MayContact(j.key, j.snap, j.at)
             P(d) == [ IdleJob EXCEPT !.pc = "commit", !.key = j.key,
                         !.stale = j.stale, !.at = j.at, !.to = d ]
             C == [ IdleJob EXCEPT !.pc = "claim", !.key = j.key, !.at = j.at,
                                   !.amount = j.snap.amount ]
  <1>1. UNCHANGED << db, provider, now, lock, bounded >> /\ j.pc = "consider"
    BY DEF Consider
  <1>2. j.key \in Cases /\ j.stale \in BOOLEAN /\ j.at \in Time /\ j.snap \in CaseRecords
        /\ j.snap.amount \in BOOLEAN
    BY <1>1, JobFacts DEF CaseRecords
  <1>3. ASSUME NEW d \in Decisions
        PROVE  JobOK(P(d))
    <2> DEFINE x == j.key
               y == j.stale
               z == j.at
               q == [ IdleJob EXCEPT !.pc = "commit", !.key = x, !.stale = y,
                                     !.at = z, !.to = d ]
    <2>1. x \in Cases /\ y \in BOOLEAN /\ z \in Time
      BY <1>2
    <2> HIDE DEF x, y, z
    <2>2. q \in Jobs /\ q.pc = "commit" /\ q.key = x
      BY <2>1, IdleParts DEF IdleJob, Jobs
    <2> HIDE DEF q
    <2>3. JobOK(q)
      BY <2>1, <2>2 DEF JobOK, HoldsLink
    <2>4. QED
      BY <2>3 DEF q, x, y, z
  <1>4. JobOK(C)
    <2> DEFINE x == j.key
               z == j.at
               a == j.snap.amount
               q == [ IdleJob EXCEPT !.pc = "claim", !.key = x, !.at = z, !.amount = a ]
    <2>1. x \in Cases /\ a \in BOOLEAN /\ z \in Time
      BY <1>2
    <2> HIDE DEF x, z, a
    <2>2. q \in Jobs /\ q.pc = "claim" /\ q.key = x
      BY <2>1, IdleParts DEF IdleJob, Jobs
    <2> HIDE DEF q
    <2>3. JobOK(q)
      BY <2>1, <2>2 DEF JobOK, HoldsLink
    <2>4. QED
      BY <2>3 DEF q, x, z, a
  <1>5. \/ \E d \in Decisions : job' = [ job EXCEPT ![w] = P(d) ]
        \/ job' = [ job EXCEPT ![w] = C ]
    <2>1. \A d \in CooldownOutcomes(j.at) \cup { RetryOutcome(j.snap, blocked) }
                   \cup (IF blocked # "none" THEN { Refusal(blocked) } ELSE {}) :
            d \in Decisions
      BY <1>2, OutcomeType
    <2> HIDE DEF blocked
    <2>2. QED
      BY <2>1 DEF Consider, blocked
  <1> HIDE DEF P, C
  <1>6. QED
    BY <1>1, <1>3, <1>4, <1>5, JobOnly

\* _commit_state keeps TypeOK.
LEMMA CommitKeepsType ==
  ASSUME TypeOK, NEW w \in Workers, Commit(w)
  PROVE  TypeOK'
  <1> DEFINE j == job[w]
             d == Committed(cases[j.key], j.to)
  <1>1. /\ j.pc = "commit"
        /\ UNCHANGED << creates, cancels, processed, provider, now, lock, bounded >>
        /\ created' = created
    BY DEF Commit, provider
  <1>2. j.key \in Cases /\ j.to \in Decisions
    BY <1>1, JobFacts
  <1>3. CancelsOK' /\ RestOK'
    BY <1>1, UnchangedParts
  <1>4. CASE cases' = cases /\ job' = [ job EXCEPT ![w] = IdleJob ]
    <2>1. CasesOK' /\ JobsOK'
      BY <1>1, <1>4, UnchangedParts, JobStep, IdleJobOK
    <2>2. QED
      BY <1>3, <2>1, TypePartsNext
  <1>5. CASE /\ cases' = [ cases EXCEPT ![j.key] = d ]
             /\ job' = [ Saved({ j.key }) EXCEPT ![w] = IdleJob ]
    <2>1. d \in CaseRecords /\ d.link <= created[j.key]
      BY <1>2, CaseFacts, CommittedType
    <2> HIDE DEF d
    <2>2. CasesOK'
      BY <1>1, <1>2, <1>5, <2>1, CaseStep
    <2>3. JobsOK'
      BY <1>1, <1>5, JobStep, IdleJobOK
    <2>4. QED
      BY <1>3, <2>2, <2>3, TypePartsNext
  <1>6. QED
    BY <1>4, <1>5 DEF Commit

\* Moving a worker on to a step in which it holds no link keeps its job
\* well formed.
LEMMA PcOK ==
  ASSUME NEW i, JobOK(i), i.pc # "idle",
         NEW p \in { "create", "uncreated", "commit", "claim" }
  PROVE  JobOK([ i EXCEPT !.pc = p ])
  <1> DEFINE x == [ i EXCEPT !.pc = p ]
  <1>1. i \in Jobs /\ i.key \in Cases
    BY DEF JobOK
  <1>2. x \in Jobs /\ x.pc = p /\ x.key = i.key
    BY <1>1 DEF Jobs
  <1> HIDE DEF x
  <1>3. JobOK(x)
    BY <1>1, <1>2 DEF JobOK, HoldsLink
  <1>4. QED
    BY <1>3 DEF x

\* A creation that failed, for some reason, leaves a well-formed job.
LEMMA UncreatedOK ==
  ASSUME NEW i, JobOK(i), i.pc # "idle", NEW r \in Reasons
  PROVE  JobOK([ i EXCEPT !.pc = "uncreated", !.to.reason = r ])
  <1> DEFINE t == [ i.to EXCEPT !.reason = r ]
             x == [ i EXCEPT !.pc = "uncreated", !.to = t ]
  <1>1. i \in Jobs /\ i.key \in Cases
    BY DEF JobOK
  <1>2. i.to \in Decisions
    BY <1>1 DEF Jobs
  <1>3. t \in Decisions
    BY <1>2 DEF Decisions
  <1>4. x = [ i EXCEPT !.pc = "uncreated", !.to.reason = r ]
    BY <1>1 DEF Jobs
  <1> HIDE DEF t
  <1>5. x \in Jobs /\ x.pc = "uncreated" /\ x.key = i.key
    BY <1>1, <1>3 DEF Jobs
  <1> HIDE DEF x
  <1>6. JobOK(x)
    BY <1>1, <1>5 DEF JobOK, HoldsLink
  <1>7. QED
    BY <1>4, <1>6

\* Claiming the creation of a link keeps TypeOK.
LEMMA ClaimCreateKeepsType ==
  ASSUME TypeOK, NEW w \in Workers, ClaimCreate(w)
  PROVE  TypeOK'
  <1> DEFINE j == job[w]
             i == [ j EXCEPT !.pc = "create" ]
  <1>1. /\ j.pc = "claim" /\ created' = created
        /\ UNCHANGED << cases, cancels, processed, provider, now, lock, bounded >>
    BY DEF ClaimCreate, provider
  <1>2. j.key \in Cases /\ JobOK(i)
    BY <1>1, JobFacts, PcOK
  <1>3. CasesOK' /\ CancelsOK'
    BY <1>1, UnchangedParts
  <1>4. RestOK'
    BY <1>1, TypeParts DEF ClaimCreate, RestOK, provider, bounded
  <1>5. job' = [ job EXCEPT ![w] = i ] \/ job' = [ job EXCEPT ![w] = IdleJob ]
    BY DEF ClaimCreate
  <1> HIDE DEF i
  <1>6. JobsOK'
    BY <1>1, <1>2, <1>5, JobStep, IdleJobOK
  <1>7. QED
    BY <1>3, <1>4, <1>6, TypePartsNext

\* A provider that makes no link keeps TypeOK.
LEMMA ProviderRefusesKeepsType ==
  ASSUME TypeOK, NEW w \in Workers, ProviderRefuses(w)
  PROVE  TypeOK'
  <1>1. PICK r \in { "payment_link_create_rejected",
                     "payment_link_create_unavailable" } :
          job' = [ job EXCEPT ![w].pc = "uncreated", ![w].to.reason = r ]
    BY DEF ProviderRefuses
  <1> DEFINE i == [ job[w] EXCEPT !.pc = "uncreated", !.to.reason = r ]
  <1>2. r \in Reasons /\ job[w].pc # "idle"
    BY DEF Reasons, ProviderRefuses
  <1>3. JobOK(i)
    BY <1>2, JobFacts, UncreatedOK
  <1>4. job' = [ job EXCEPT ![w] = i ]
    BY <1>1, TypeParts DEF JobsOK
  <1> HIDE DEF i
  <1>5. QED
    BY <1>3, <1>4, JobOnly DEF ProviderRefuses

\* A provider that makes a link keeps TypeOK: links are only ever added.
LEMMA ProviderCreatesKeepsType ==
  ASSUME TypeOK, NEW w \in Workers, ProviderCreates(w)
  PROVE  TypeOK'
  <1> DEFINE j == job[w]
             n == created[j.key] + 1
             a == [ j EXCEPT !.pc = "created", !.link = n ]
  <1>0. PICK r \in { "payment_link_create_unavailable",
                     "payment_link_create_rejected" } :
          \/ job' = [ job EXCEPT ![w].pc = "created", ![w].link = n ]
          \/ job' = [ job EXCEPT ![w].pc = "uncreated", ![w].to.reason = r ]
    BY DEF ProviderCreates
  <1> DEFINE b == [ j EXCEPT !.pc = "uncreated", !.to.reason = r ]
  <1>1. /\ j.pc = "create" /\ n <= MaxLinks
        /\ created' = [ created EXCEPT ![j.key] = n ]
        /\ plink' = [ plink EXCEPT ![j.key][n] = "issued" ]
        /\ UNCHANGED << db, pay, sent, now, lock, bounded >>
    BY DEF ProviderCreates
  <1>2. j.key \in Cases /\ j \in Jobs /\ JobOK(j)
    BY <1>1, JobFacts
  <1>3. n \in Nat /\ n \in 1 .. MaxLinks /\ created \in [ Cases -> 0 .. MaxLinks ]
    BY <1>1, <1>2, CaseFacts, TypeParts, RecoveryAssumption DEF RestOK
  <1>4. created' \in [ Cases -> 0 .. MaxLinks ]
    <2>1. n \in 0 .. MaxLinks
      BY <1>3, RecoveryAssumption
    <2> HIDE DEF n
    <2>2. QED
      BY <1>1, <1>3, <2>1
  <1>5. /\ \A k \in Cases : created[k] \in Nat /\ created'[k] \in Nat
                            /\ created[k] <= created'[k]
        /\ created'[j.key] = n
    BY <1>1, <1>2, <1>3, RecoveryAssumption
  <1>6. CasesOK'
    <2>1. cases' = cases /\ \A k \in Cases : cases[k].link \in Nat
                                             /\ cases[k].link <= created[k]
      BY <1>1, CaseFacts DEF db
    <2>2. \A k \in Cases : cases'[k].link <= created'[k]
      BY <1>5, <2>1
    <2>3. QED
      BY <2>1, <2>2, TypeParts DEF CasesOK
  <1>7. CancelsOK'
    <2>1. cancels' = cancels
          /\ \A k \in Cases, q \in CancelRows : cancels[k][q].status # "none" =>
               cancels[k][q].link \in 1 .. created[k]
      BY <1>1, CaseFacts DEF db
    <2>2. \A k \in Cases, q \in CancelRows : cancels'[k][q].status # "none" =>
               cancels'[k][q].link \in 1 .. created'[k]
      BY <1>5, <2>1
    <2>3. QED
      BY <2>1, <2>2, TypeParts DEF CancelsOK
  <1>8. RestOK'
    <2>1. plink' \in [ Cases -> [ Links -> LinkStatuses ] ]
      BY <1>1, <1>2, <1>3, TypeParts DEF RestOK, Links, LinkStatuses
    <2>2. QED
      BY <1>1, <1>4, <2>1, TypeParts DEF RestOK, db, bounded
  <1>9. JobsOK'
    <2>1. a \in Jobs /\ a.pc = "created" /\ a.key = j.key /\ a.link = n
      <3> HIDE DEF n
      <3>1. QED
        BY <1>2, <1>3 DEF Jobs
    <2>2. b \in Jobs /\ b.pc = "uncreated" /\ b.key = j.key
      <3>1. r \in Reasons /\ j.pc # "idle"
        BY <1>1 DEF Reasons
      <3>2. JobOK(b)
        BY <1>2, <3>1, UncreatedOK
      <3>3. b.pc = "uncreated" /\ b.key = j.key
        BY <1>2 DEF Jobs
      <3>4. QED
        BY <3>2, <3>3 DEF JobOK
    <2>3. job' = [ job EXCEPT ![w] = a ] \/ job' = [ job EXCEPT ![w] = b ]
      BY <1>0, TypeParts DEF JobsOK
    <2> HIDE DEF a, b
    <2>4. job' \in [ Workers -> Jobs ]
      BY <2>1, <2>2, <2>3, TypeParts DEF JobsOK
    <2>5. ASSUME NEW v \in Workers
          PROVE  /\ job'[v].pc # "idle" => job'[v].key \in Cases
                 /\ job'[v].pc \in HoldsLink => job'[v].link \in 1 .. created'[job'[v].key]
      <3>1. CASE v # w
        <4>1. job'[v] = job[v]
          BY <2>3, <3>1, TypeParts DEF JobsOK
        <4>2. JobOK(job[v]) /\ (job[v].pc # "idle" => job[v].key \in Cases)
          BY JobFacts
        <4>3. job[v].pc \in HoldsLink =>
                job[v].key \in Cases /\ job[v].link \in 1 .. created[job[v].key]
          BY <4>2 DEF JobOK, HoldsLink
        <4>4. QED
          BY <1>5, <4>1, <4>2, <4>3
      <3>2. CASE v = w
        <4>1. job'[v] = a \/ job'[v] = b
          BY <2>3, <3>2, TypeParts DEF JobsOK
        <4>2. n \in 1 .. created'[j.key]
          BY <1>3, <1>5
        <4>3. QED
          BY <1>2, <2>1, <2>2, <4>1, <4>2 DEF HoldsLink
      <3>3. QED
        BY <3>1, <3>2
    <2>6. QED
      BY <2>4, <2>5 DEF JobsOK, JobOK
  <1>10. QED
    BY <1>6, <1>7, <1>8, <1>9, TypePartsNext

\* The failure transaction of _create_recovery_link keeps TypeOK.
LEMMA RecordUncreatedKeepsType ==
  ASSUME TypeOK, NEW w \in Workers, RecordUncreated(w)
  PROVE  TypeOK'
  <1> DEFINE j == job[w]
             k == j.key
             x == j.to.reason
             c == [ cases[k] EXCEPT !.state = "manual_review", !.reason = x ]
  <1>1. /\ j.pc = "uncreated" /\ created' = created
        /\ creates' = [ creates EXCEPT ![k] = "failed" ]
        /\ UNCHANGED << cancels, processed, provider, now, lock, bounded >>
    BY DEF RecordUncreated, provider
  <1>2. k \in Cases /\ x \in Reasons
    BY <1>1, JobFacts DEF Decisions
  <1>3. CancelsOK'
    BY <1>1, UnchangedParts
  <1>4. RestOK'
    BY <1>1, <1>2, TypeParts DEF RestOK, provider, bounded
  <1>5. CASE cases' = cases /\ job' = [ job EXCEPT ![w] = IdleJob ]
    <2>1. CasesOK' /\ JobsOK'
      BY <1>1, <1>5, UnchangedParts, JobStep, IdleJobOK
    <2>2. QED
      BY <1>3, <1>4, <2>1, TypePartsNext
  <1>6. CASE /\ cases' = [ cases EXCEPT ![k].state = "manual_review", ![k].reason = x ]
             /\ job' = [ Saved({ k }) EXCEPT ![w] = IdleJob ]
    <2>1. cases[k] \in CaseRecords /\ cases[k].link <= created[k]
          /\ cases \in [ Cases -> CaseRecords ]
      BY <1>2, CaseFacts, TypeParts DEF CasesOK
    <2>2. cases' = [ cases EXCEPT ![k] = c ]
      BY <1>6, <2>1
    <2>3. c \in CaseRecords /\ c.link = cases[k].link
      <3> DEFINE g == [ cases[k] EXCEPT !.state = "manual_review" ]
      <3>1. g \in CaseRecords /\ g.link = cases[k].link
        BY <2>1 DEF CaseRecords, States
      <3>2. c = [ g EXCEPT !.reason = x ]
        OBVIOUS
      <3> HIDE DEF g, x, c
      <3>3. QED
        BY <1>2, <3>1, <3>2 DEF CaseRecords
    <2> HIDE DEF x, c
    <2>4. CasesOK'
      BY <1>1, <1>2, <2>1, <2>2, <2>3, CaseStep
    <2>5. JobsOK'
      BY <1>1, <1>6, JobStep, IdleJobOK
    <2>6. QED
      BY <1>3, <1>4, <2>4, <2>5, TypePartsNext
  <1>7. QED
    BY <1>5, <1>6 DEF RecordUncreated

\* The success transaction of _create_recovery_link keeps TypeOK.
LEMMA RecordCreatedKeepsType ==
  ASSUME TypeOK, NEW w \in Workers, RecordCreated(w)
  PROVE  TypeOK'
  <1> DEFINE j == job[w]
             k == j.key
             c == LinkSent(cases[k], j.link, j.at)
             i == [ j EXCEPT !.pc = "supersede" ]
  <1>1. /\ j.pc = "created" /\ created' = created
        /\ UNCHANGED << cancels, processed, provider, now, bounded >>
    BY DEF RecordCreated, provider
  <1>2. /\ k \in Cases /\ j.at \in Time /\ j.link \in Nat /\ j \in Jobs
        /\ j.link \in 1 .. created[k]
    BY <1>1, JobFacts DEF JobOK, HoldsLink
  <1>3. CancelsOK'
    BY <1>1, UnchangedParts
  <1>4. CASE cases[k].state = "consent_required"
    <2>1. /\ cases' = [ cases EXCEPT ![k] = c ]
          /\ creates' = [ creates EXCEPT ![k] = "succeeded" ]
          /\ job' = [ Saved({ k }) EXCEPT ![w] = IdleJob ]
          /\ UNCHANGED lock
      BY <1>4 DEF RecordCreated
    <2>2. RestOK'
      BY <1>1, <1>2, <2>1, TypeParts DEF RestOK, provider, bounded
    <2>3. c \in CaseRecords /\ c.link <= created[k]
      BY <1>2, CaseFacts, LinkSentType
    <2> HIDE DEF c
    <2>4. CasesOK'
      BY <1>1, <1>2, <2>1, <2>3, CaseStep
    <2>5. JobsOK'
      BY <1>1, <2>1, JobStep, IdleJobOK
    <2>6. QED
      BY <1>3, <2>2, <2>4, <2>5, TypePartsNext
  <1>5. CASE cases[k].state # "consent_required"
    <2>1. job' = [ job EXCEPT ![w] = i ] /\ lock' = w /\ UNCHANGED << cases, creates >>
      BY <1>5 DEF RecordCreated
    <2>2. RestOK'
      BY <1>1, <2>1, TypeParts DEF RestOK, provider, bounded
    <2>3. i \in Jobs /\ i.pc = "supersede" /\ i.key = k /\ i.link = j.link
      BY <1>2 DEF Jobs
    <2> HIDE DEF i
    <2>4. JobOK(i)
      BY <1>2, <2>3 DEF JobOK
    <2>5. CasesOK' /\ JobsOK'
      BY <1>1, <2>1, <2>4, UnchangedParts, JobStep
    <2>6. QED
      BY <1>3, <2>2, <2>5, TypePartsNext
  <1>6. QED
    BY <1>4, <1>5

\* A webhook the provider emits is a well-formed event.
LEMMA EventType ==
  ASSUME TypeOK, NEW type \in EventTypes, NEW k \in Cases, NEW no \in Nat,
         NEW code \in FailureCodes \cup { "none" }, NEW captured \in BOOLEAN,
         NEW n \in Nat
  PROVE  Event(type, k, no, code, captured, n) \in EventRecords
  <1> DEFINE b == type = "payment.failed"
             t == now
  <1>1. b \in BOOLEAN /\ t \in Time
    BY TypeParts DEF RestOK
  <1>2. Event(type, k, no, code, captured, n) =
          [ type |-> type, key |-> k, no |-> no, at |-> t, code |-> code,
            amount |-> b, captured |-> captured, link |-> n ]
    BY DEF Event
  <1> HIDE DEF b, t
  <1>3. QED
    BY <1>1, <1>2 DEF EventRecords

\* The provider's side of a cancel keeps links and webhooks well formed.
LEMMA ProviderCancelsType ==
  ASSUME TypeOK, NEW k \in Cases, NEW n \in 1 .. created[k], ProviderCancels(k, n)
  PROVE  /\ plink' \in [ Cases -> [ Links -> LinkStatuses ] ]
         /\ sent' \in SUBSET EventRecords /\ IsFiniteSet(sent')
  <1> DEFINE e == Event("payment_link.cancelled", k, 0, "none", FALSE, n)
  <1>1. n \in Nat /\ n \in Links
    BY CaseFacts, RecoveryAssumption DEF Links
  <1>2. e \in EventRecords
    BY <1>1, EventType DEF EventTypes, LinkEvents
  <1>3. /\ sent \in SUBSET EventRecords /\ plink \in [ Cases -> [ Links -> LinkStatuses ] ]
        /\ IsFiniteSet(sent)
    BY TypeParts DEF RestOK
  <1> HIDE DEF e
  <1>4. sent' \in { sent, sent \cup { e } }
    BY DEF ProviderCancels, e
  <1>5. plink' = plink \/ plink' = [ plink EXCEPT ![k][n] = "cancelled" ]
    BY DEF ProviderCancels
  <1>6. plink' \in [ Cases -> [ Links -> LinkStatuses ] ]
    BY <1>1, <1>3, <1>5 DEF LinkStatuses
  <1>7. IsFiniteSet(sent')
    BY <1>3, <1>4, FS_AddElement
  <1>8. QED
    BY <1>2, <1>3, <1>4, <1>6, <1>7

\* Revoking a superseded link keeps TypeOK.
LEMMA SupersedeKeepsType ==
  ASSUME TypeOK, NEW w \in Workers, Supersede(w)
  PROVE  TypeOK'
  <1> DEFINE k == job[w].key
             n == job[w].link
  <1>1. /\ job[w].pc = "supersede"
        /\ creates' = [ creates EXCEPT ![k] = "superseded" ]
        /\ job' = [ job EXCEPT ![w] = IdleJob ]
        /\ lock' = None
        /\ UNCHANGED << cases, cancels, processed, created, pay, now, bounded >>
    BY DEF Supersede
  <1>2. k \in Cases /\ n \in 1 .. created[k]
    BY <1>1, JobFacts DEF JobOK, HoldsLink
  <1>3. /\ plink' \in [ Cases -> [ Links -> LinkStatuses ] ]
        /\ sent' \in SUBSET EventRecords /\ IsFiniteSet(sent')
    <2>1. CASE ProviderCancels(k, n)
      BY <1>2, <2>1, ProviderCancelsType
    <2>2. CASE UNCHANGED << plink, sent >>
      BY <2>2, TypeParts DEF RestOK
    <2>3. QED
      BY <2>1, <2>2 DEF Supersede
  <1>4. RestOK'
    BY <1>1, <1>2, <1>3, TypeParts DEF RestOK, bounded
  <1>5. CasesOK' /\ CancelsOK' /\ JobsOK'
    BY <1>1, UnchangedParts, JobStep, IdleJobOK
  <1>6. QED
    BY <1>4, <1>5, TypePartsNext

\* Asking the provider to revoke a link keeps TypeOK.
LEMMA CancelCallKeepsType ==
  ASSUME TypeOK, NEW w \in Workers, CancelCall(w)
  PROVE  TypeOK'
  <1> DEFINE j == job[w]
             k == j.key
             n == j.link
             s == plink'[k][n]
             a == [ j EXCEPT !.pc = "cancelled", !.status = s ]
             b == [ j EXCEPT !.pc = "uncancelled" ]
  <1>1. j.pc = "cancel" /\ UNCHANGED << db, created, pay, now, lock, bounded >>
    BY DEF CancelCall
  <1>2. k \in Cases /\ n \in 1 .. created[k] /\ j \in Jobs /\ JobOK(j)
    BY <1>1, JobFacts DEF JobOK, HoldsLink
  <1>3. /\ plink' \in [ Cases -> [ Links -> LinkStatuses ] ]
        /\ sent' \in SUBSET EventRecords /\ IsFiniteSet(sent')
    <2>1. CASE ProviderCancels(k, n)
      BY <1>2, <2>1, ProviderCancelsType
    <2>2. CASE UNCHANGED << plink, sent >>
      BY <2>2, TypeParts DEF RestOK
    <2>3. QED
      BY <2>1, <2>2 DEF CancelCall
  <1>4. s \in LinkStatuses
    <2>1. n \in Links
      BY <1>2, CaseFacts, RecoveryAssumption DEF Links
    <2>2. QED
      BY <1>2, <1>3, <2>1
  <1>5. job' = [ job EXCEPT ![w] = a ] \/ job' = [ job EXCEPT ![w] = b ]
    BY TypeParts DEF CancelCall, JobsOK
  <1>6. JobOK(a)
    <2> HIDE DEF s
    <2>1. a \in Jobs /\ a.pc = "cancelled" /\ a.key = k /\ a.link = n
      BY <1>2, <1>4 DEF Jobs
    <2> HIDE DEF a
    <2>2. QED
      BY <1>2, <2>1 DEF JobOK
  <1>7. JobOK(b)
    <2>1. b \in Jobs /\ b.pc = "uncancelled" /\ b.key = k /\ b.link = n
      BY <1>2 DEF Jobs
    <2> HIDE DEF b
    <2>2. QED
      BY <1>2, <2>1 DEF JobOK
  <1> HIDE DEF a, b
  <1>8. CasesOK' /\ CancelsOK'
    BY <1>1, UnchangedParts DEF db
  <1>9. JobsOK'
    BY <1>1, <1>5, <1>6, <1>7, JobStep
  <1>10. RestOK'
    BY <1>1, <1>3, TypeParts DEF RestOK, db, bounded
  <1>11. QED
    BY <1>8, <1>9, <1>10, TypePartsNext

\* A new status of a claimed cancel row keeps the ledger well formed.
LEMMA RowStatusOK ==
  ASSUME TypeOK, NEW k \in Cases, NEW r \in CancelRows, created' = created,
         cancels[k][r].status # "none", NEW s \in { "succeeded", "failed" },
         cancels' = [ cancels EXCEPT ![k][r].status = s ]
  PROVE  CancelsOK'
  <1> DEFINE x == [ cancels[k][r] EXCEPT !.status = s ]
  <1>1. cancels[k][r] \in CancelRecords /\ cancels[k][r].link \in 1 .. created[k]
    BY CaseFacts
  <1>2. x \in CancelRecords /\ x.link = cancels[k][r].link
    BY <1>1 DEF CancelRecords
  <1>3. cancels' = [ cancels EXCEPT ![k][r] = x ]
    <2>1. cancels \in [ Cases -> [ CancelRows -> CancelRecords ] ]
      BY TypeParts DEF CancelsOK
    <2>2. cancels[k] \in [ CancelRows -> CancelRecords ]
      BY <2>1
    <2>3. [ cancels[k] EXCEPT ![r].status = s ] = [ cancels[k] EXCEPT ![r] = x ]
      BY <2>2
    <2>4. QED
      BY <2>1, <2>3
  <1> HIDE DEF x
  <1>4. x.link \in 1 .. created[k]
    BY <1>1, <1>2
  <1>5. x \in CancelRecords
    BY <1>2
  <1>6. QED
    BY ONLY <1>3, <1>4, <1>5, CancelStep, TypeOK, k \in Cases, r \in CancelRows,
            created' = created

\* A worker that is revoking a link has claimed a row of the ledger for it.
RowClaimed(w) ==
    job[w].pc \in { "cancel", "cancelled", "uncancelled", "sweep" } =>
        cancels[job[w].key][job[w].row].status # "none"

RevokersHoldRows == \A w \in Workers : RowClaimed(w)

\* The success transaction of _execute_cancel keeps TypeOK.
LEMMA RecordCancelledKeepsType ==
  ASSUME TypeOK, NEW w \in Workers, RowClaimed(w), RecordCancelled(w)
  PROVE  TypeOK'
  <1> DEFINE j == job[w]
             k == j.key
             c == CancelRecorded(cases[k], j.status)
  <1>1. /\ j.pc = "cancelled" /\ created' = created
        /\ cancels' = [ cancels EXCEPT ![k][j.row].status = "succeeded" ]
        /\ cases' = [ cases EXCEPT ![k] = c ]
        /\ job' = [ Saved({ k }) EXCEPT ![w] = IdleJob ]
        /\ UNCHANGED << creates, processed, provider, now, lock, bounded >>
    BY DEF RecordCancelled, provider
  <1>2. k \in Cases /\ j.row \in CancelRows /\ j.status \in LinkStatuses
    BY <1>1, JobFacts
  <1>3. CancelsOK'
    BY <1>1, <1>2, RowStatusOK DEF RowClaimed
  <1>4. c \in CaseRecords /\ c.link <= created[k]
    BY <1>2, CaseFacts, CancelRecordedType
  <1> HIDE DEF c
  <1>5. CasesOK'
    BY <1>1, <1>2, <1>4, CaseStep
  <1>6. JobsOK' /\ RestOK'
    BY <1>1, UnchangedParts, JobStep, IdleJobOK
  <1>7. QED
    BY <1>3, <1>5, <1>6, TypePartsNext

\* The failure transaction of _execute_cancel keeps TypeOK.
LEMMA RecordUncancelledKeepsType ==
  ASSUME TypeOK, NEW w \in Workers, RowClaimed(w), RecordUncancelled(w)
  PROVE  TypeOK'
  <1> DEFINE j == job[w]
             k == j.key
             c == [ cases[k] EXCEPT !.recon = TRUE,
                                    !.reason = "payment_link_cancel_failed" ]
  <1>1. /\ j.pc = "uncancelled" /\ created' = created
        /\ cancels' = [ cancels EXCEPT ![k][j.row].status = "failed" ]
        /\ cases' = [ cases EXCEPT ![k].recon = TRUE,
                                   ![k].reason = "payment_link_cancel_failed" ]
        /\ job' = [ Saved({ k }) EXCEPT ![w] = IdleJob ]
        /\ UNCHANGED << creates, processed, provider, now, lock, bounded >>
    BY DEF RecordUncancelled, provider
  <1>2. k \in Cases /\ j.row \in CancelRows
    BY <1>1, JobFacts
  <1>3. CancelsOK'
    BY <1>1, <1>2, RowStatusOK DEF RowClaimed
  <1>4. cases[k] \in CaseRecords /\ cases[k].link <= created[k]
        /\ cases \in [ Cases -> CaseRecords ]
    BY <1>2, CaseFacts, TypeParts DEF CasesOK
  <1>5. c \in CaseRecords /\ c.link = cases[k].link
    BY <1>4, FlaggedRowType DEF FlaggedRow, Reasons
  <1>6. cases' = [ cases EXCEPT ![k] = c ]
    BY <1>1, <1>4
  <1> HIDE DEF c
  <1>7. CasesOK'
    BY <1>1, <1>2, <1>4, <1>5, <1>6, CaseStep
  <1>8. JobsOK' /\ RestOK'
    BY <1>1, UnchangedParts, JobStep, IdleJobOK
  <1>9. QED
    BY <1>3, <1>7, <1>8, TypePartsNext

\* Reading a failed row for the sweep keeps TypeOK.
LEMMA SweepReadKeepsType ==
  ASSUME TypeOK, NEW w \in Workers, NEW k \in Cases, NEW r \in CancelRows,
         SweepRead(w, k, r)
  PROVE  TypeOK'
  <1> DEFINE n == cancels[k][r].link
             s == cases[k].lstat
             j == [ IdleJob EXCEPT !.pc = "sweep", !.key = k, !.row = r,
                                   !.link = n, !.status = s ]
  <1>1. job' = [ job EXCEPT ![w] = j ] /\ UNCHANGED << db, provider, now, lock, bounded >>
        /\ cancels[k][r].status = "failed"
    BY DEF SweepRead
  <1>2. n \in Nat /\ n \in 1 .. created[k] /\ s \in LinkStatuses
    BY <1>1, CaseFacts DEF CancelRecords, CaseRecords
  <1> HIDE DEF n, s
  <1>3. j \in Jobs /\ j.pc = "sweep" /\ j.key = k /\ j.link = n
    BY <1>2, IdleParts DEF IdleJob, Jobs
  <1> HIDE DEF j
  <1>4. JobOK(j)
    BY <1>2, <1>3 DEF JobOK, HoldsLink
  <1>5. QED
    BY <1>1, <1>4, JobOnly

\* The sweep of one failed row keeps TypeOK.
LEMMA SweepKeepsType ==
  ASSUME TypeOK, NEW w \in Workers, RowClaimed(w), Sweep(w)
  PROVE  TypeOK'
  <1> DEFINE j == job[w]
             k == j.key
             x == Claimed(cancels[k][j.row], j.link)
             i == CancelJob(k, j.row, j.link)
  <1>1. /\ j.pc = "sweep" /\ created' = created
        /\ UNCHANGED << cases, creates, processed, provider, now, lock, bounded >>
    BY DEF Sweep, provider
  <1>2. k \in Cases /\ j.row \in CancelRows /\ j.link \in 1 .. created[k] /\ j.link \in Nat
    BY <1>1, JobFacts DEF JobOK, HoldsLink
  <1>3. CasesOK' /\ RestOK'
    BY <1>1, UnchangedParts
  <1>4. x \in CancelRecords /\ x.link \in 1 .. created[k] /\ JobOK(i)
    BY <1>2, CaseFacts, ClaimedType, CancelJobOK
  <1>5. /\ \/ cancels' = [ cancels EXCEPT ![k][j.row].status = "succeeded" ]
           \/ cancels' = [ cancels EXCEPT ![k][j.row] = x ]
           \/ cancels' = cancels
        /\ job' = [ job EXCEPT ![w] = IdleJob ] \/ job' = [ job EXCEPT ![w] = i ]
    BY DEF Sweep
  <1> HIDE DEF x, i
  <1>6. CancelsOK'
    <2>1. CASE cancels' = [ cancels EXCEPT ![k][j.row].status = "succeeded" ]
      BY <1>1, <1>2, <2>1, RowStatusOK DEF RowClaimed
    <2>2. CASE cancels' = [ cancels EXCEPT ![k][j.row] = x ]
      BY <1>1, <1>2, <1>4, <2>2, CancelStep
    <2>3. CASE cancels' = cancels
      BY <1>1, <2>3, UnchangedParts
    <2>4. QED
      BY <1>5, <2>1, <2>2, <2>3
  <1>7. JobsOK'
    BY <1>1, <1>4, <1>5, JobStep, IdleJobOK
  <1>8. QED
    BY <1>3, <1>6, <1>7, TypePartsNext

\* Reading a case for a draft keeps TypeOK.
LEMMA PreviewReadKeepsType ==
  ASSUME TypeOK, NEW w \in Workers, NEW k \in Cases, PreviewRead(w, k)
  PROVE  TypeOK'
  <1> DEFINE n == cases[k].link
             j == [ IdleJob EXCEPT !.pc = "draft", !.key = k, !.link = n ]
  <1>1. job' = [ job EXCEPT ![w] = j ] /\ UNCHANGED << db, provider, now, lock, bounded >>
        /\ HasCancellableLink(cases[k])
    BY DEF PreviewRead
  <1>2. n \in Nat /\ n \in 1 .. created[k]
    BY <1>1, CaseFacts DEF HasCancellableLink, NoLink
  <1> HIDE DEF n
  <1>3. j \in Jobs /\ j.pc = "draft" /\ j.key = k /\ j.link = n
    BY <1>2, IdleParts DEF IdleJob, Jobs
  <1> HIDE DEF j
  <1>4. JobOK(j)
    BY <1>2, <1>3 DEF JobOK, HoldsLink
  <1>5. QED
    BY <1>1, <1>4, JobOnly

\* Storing a draft keeps TypeOK.
LEMMA PreviewSaveKeepsType ==
  ASSUME TypeOK, NEW w \in Workers, PreviewSave(w)
  PROVE  TypeOK'
  <1> DEFINE k == job[w].key
             c == [ cases[k] EXCEPT !.preview = TRUE ]
  <1>1. /\ job[w].pc = "draft" /\ created' = created
        /\ UNCHANGED << creates, cancels, processed, provider, now, lock, bounded >>
    BY DEF PreviewSave, provider
  <1>2. k \in Cases
    BY <1>1, JobFacts
  <1>3. CancelsOK' /\ RestOK'
    BY <1>1, UnchangedParts
  <1>4. JobsOK'
    BY <1>1, JobStep, IdleJobOK DEF PreviewSave
  <1>5. CASE cases' = cases
    BY <1>1, <1>3, <1>4, <1>5, UnchangedParts, TypePartsNext
  <1>6. CASE cases' = [ cases EXCEPT ![k].preview = TRUE ]
    <2>1. cases[k] \in CaseRecords /\ cases[k].link <= created[k]
          /\ cases \in [ Cases -> CaseRecords ]
      BY <1>2, CaseFacts, TypeParts DEF CasesOK
    <2>2. c \in CaseRecords /\ c.link = cases[k].link
      BY <2>1 DEF CaseRecords
    <2>3. cases' = [ cases EXCEPT ![k] = c ]
      BY <1>6, <2>1
    <2> HIDE DEF c
    <2>4. CasesOK'
      BY <1>1, <1>2, <2>1, <2>2, <2>3, CaseStep
    <2>5. QED
      BY <1>3, <1>4, <2>4, TypePartsNext
  <1>7. QED
    BY <1>5, <1>6 DEF PreviewSave

\* Reopening a case keeps TypeOK.
LEMMA ReopenKeepsType ==
  ASSUME TypeOK, NEW k \in Cases, NEW class \in FailureClasses \cup { "none" },
         Reopen(k, class)
  PROVE  TypeOK'
  <1>1. PICK degraded \in BOOLEAN :
          cases' = [ cases EXCEPT ![k] = Reopened(@, class, now, degraded) ]
    BY DEF Reopen
  <1> DEFINE c == Reopened(cases[k], class, now, degraded)
  <1>2. /\ job' = Saved({ k }) /\ reopens' = reopens + 1 /\ created' = created
        /\ UNCHANGED << creates, cancels, processed, provider, now, lock, crashes >>
    BY DEF Reopen, provider
  <1>3. c \in CaseRecords /\ c.link <= created[k]
    BY CaseFacts, ReopenedType, TypeParts DEF RestOK
  <1> HIDE DEF c
  <1>4. CasesOK'
    BY <1>1, <1>2, <1>3, CaseStep DEF c
  <1>5. CancelsOK'
    BY <1>2, UnchangedParts
  <1>6. RestOK'
    BY <1>2, TypeParts DEF RestOK, provider
  <1>7. job' \in [ Workers -> Jobs ] /\ \A w \in Workers : JobOK(job'[w])
    BY <1>2, SavedFacts
  <1>8. JobsOK'
    BY <1>2, <1>7 DEF JobsOK, JobOK
  <1>9. QED
    BY <1>4, <1>5, <1>6, <1>8, TypePartsNext

\* A step of the environment that only announces something and changes the
\* original payment or the status of a link keeps TypeOK.
LEMMA EnvironmentStep ==
  ASSUME TypeOK, NEW e \in EventRecords, sent' = sent \cup { e },
         pay' \in [ Cases -> { "failed", "authorized", "captured" } ],
         plink' \in [ Cases -> [ Links -> LinkStatuses ] ],
         UNCHANGED << db, created, now, job, lock, bounded >>
  PROVE  TypeOK'
  <1>1. CasesOK' /\ CancelsOK' /\ JobsOK'
    BY UnchangedParts DEF db
  <1>2. IsFiniteSet(sent')
    BY TypeParts, FS_AddElement DEF RestOK
  <1>3. RestOK'
    BY <1>2, TypeParts DEF RestOK, db, bounded
  <1>4. QED
    BY <1>1, <1>3, TypePartsNext

\* Customers, the bank and the provider keep TypeOK.
LEMMA EnvironmentKeepsType ==
  ASSUME TypeOK, Environment
  PROVE  TypeOK'
  <1>0. /\ pay \in [ Cases -> { "failed", "authorized", "captured" } ]
        /\ plink \in [ Cases -> [ Links -> LinkStatuses ] ]
    BY TypeParts DEF RestOK
  <1>00. NoLink \in Nat /\ "none" \in FailureCodes \cup { "none" } /\ 0 \in Nat
         /\ \A n \in Links : n \in Nat
    BY DEF NoLink, Links
  <1>1. ASSUME NEW k \in Cases, NEW type \in FailureEvents, Decline(k, type)
        PROVE  TypeOK'
    <2> DEFINE m == Cardinality(FailuresOf(k)) + 1
    <2>1. PICK code \in FailureCodes \cup { "none" } :
            Emit(Event(type, k, m, code, FALSE, NoLink))
      BY <1>1, RecoveryAssumption DEF Decline
    <2>2. m \in Nat
      <3>1. IsFiniteSet(FailuresOf(k))
        BY TypeParts, FS_Subset DEF RestOK, FailuresOf
      <3>2. QED
        BY <3>1, FS_CardinalityType
    <2> HIDE DEF m
    <2>3. Event(type, k, m, code, FALSE, NoLink) \in EventRecords
      BY <1>00, <2>2, EventType DEF EventTypes
    <2>4. QED
      BY <1>0, <1>1, <2>1, <2>3, EnvironmentStep DEF Decline, Emit
  <1>2. ASSUME NEW k \in Cases, Authorise(k)
        PROVE  TypeOK'
    <2>1. Event("payment.authorized", k, 0, "none", FALSE, NoLink) \in EventRecords
      BY <1>00, EventType DEF EventTypes, SuccessEvents
    <2>2. QED
      BY <1>0, <1>2, <2>1, EnvironmentStep DEF Authorise, Emit
  <1>3. ASSUME NEW k \in Cases, NEW type \in SuccessEvents, Capture(k, type)
        PROVE  TypeOK'
    <2>1. Event(type, k, 0, "none", TRUE, NoLink) \in EventRecords
      BY <1>00, EventType DEF EventTypes
    <2>2. QED
      BY <1>0, <1>3, <2>1, EnvironmentStep DEF Capture, Emit
  <1>4. ASSUME NEW k \in Cases, NEW n \in Links, PayLink(k, n)
        PROVE  TypeOK'
    <2>1. PICK status \in { "paid", "partially_paid" } :
            /\ plink' = [ plink EXCEPT ![k][n] = status ]
            /\ Emit(Event(IF status = "paid" THEN "payment_link.paid"
                          ELSE "payment_link.partially_paid", k, 0, "none", FALSE, n))
      BY <1>4 DEF PayLink
    <2> DEFINE type == IF status = "paid" THEN "payment_link.paid"
                       ELSE "payment_link.partially_paid"
    <2>2. type \in EventTypes
      BY DEF EventTypes, LinkEvents
    <2> HIDE DEF type
    <2>3. Event(type, k, 0, "none", FALSE, n) \in EventRecords
      BY <1>00, <2>2, EventType
    <2>4. plink' \in [ Cases -> [ Links -> LinkStatuses ] ]
      BY <1>0, <2>1 DEF LinkStatuses
    <2>5. sent' = sent \cup { Event(type, k, 0, "none", FALSE, n) }
      BY <2>1 DEF Emit, type
    <2>6. QED
      BY <1>0, <1>4, <2>3, <2>4, <2>5, EnvironmentStep DEF PayLink
  <1>5. ASSUME NEW k \in Cases, NEW n \in Links, CloseLink(k, n)
        PROVE  TypeOK'
    <2>1. PICK status \in { "expired", "cancelled" } :
            /\ plink' = [ plink EXCEPT ![k][n] = status ]
            /\ Emit(Event(IF status = "expired" THEN "payment_link.expired"
                          ELSE "payment_link.cancelled", k, 0, "none", FALSE, n))
      BY <1>5 DEF CloseLink
    <2> DEFINE type == IF status = "expired" THEN "payment_link.expired"
                       ELSE "payment_link.cancelled"
    <2>2. type \in EventTypes
      BY DEF EventTypes, LinkEvents
    <2> HIDE DEF type
    <2>3. Event(type, k, 0, "none", FALSE, n) \in EventRecords
      BY <1>00, <2>2, EventType
    <2>4. plink' \in [ Cases -> [ Links -> LinkStatuses ] ]
      BY <1>0, <2>1 DEF LinkStatuses
    <2>5. sent' = sent \cup { Event(type, k, 0, "none", FALSE, n) }
      BY <2>1 DEF Emit, type
    <2>6. QED
      BY <1>0, <1>5, <2>3, <2>4, <2>5, EnvironmentStep DEF CloseLink
  <1>6. ASSUME NEW k \in Cases, NEW type \in ReversalEvents, Reverse(k, type)
        PROVE  TypeOK'
    <2>1. Event(type, k, 0, "none", FALSE, NoLink) \in EventRecords
      BY <1>00, EventType DEF EventTypes
    <2>2. QED
      BY <1>0, <1>6, <2>1, EnvironmentStep DEF Reverse, Emit
  <1>7. CASE Tick
    <2>1. CasesOK' /\ CancelsOK' /\ JobsOK'
      BY <1>7, UnchangedParts DEF Tick, db, provider
    <2>2. RestOK'
      BY <1>7, TypeParts DEF Tick, RestOK, db, provider, bounded, Time
    <2>3. QED
      BY <2>1, <2>2, TypePartsNext
  <1>8. QED
    BY <1>1, <1>2, <1>3, <1>4, <1>5, <1>6, <1>7 DEF Environment

\* A crash and the restart keep TypeOK.
LEMMA CrashKeepsType ==
  ASSUME TypeOK, Crash
  PROVE  TypeOK'
  <1>1. CasesOK' /\ CancelsOK'
    BY UnchangedParts DEF Crash, provider
  <1>2. RestOK'
    BY TypeParts DEF Crash, RestOK, provider
  <1>3. JobsOK'
    <2>1. job' = [ w \in Workers |-> IdleJob ] /\ created' = created
      BY DEF Crash, provider
    <2>2. QED
      BY <2>1, IdleJobOK DEF JobsOK, JobOK
  <1>4. QED
    BY <1>1, <1>2, <1>3, TypePartsNext

-----------------------------------------------------------------------------
(* RevokersHoldRows, the part of the inductive invariant TypeOK leaves out *)

RevokingSteps == { "cancel", "cancelled", "uncancelled", "sweep" }

\* No row of the ledger is ever forgotten.
RowsKept ==
    \A k \in Cases, r \in CancelRows :
        cancels[k][r].status # "none" => cancels'[k][r].status # "none"

\* When no row is forgotten, a step keeps RevokersHoldRows if the one worker
\* it moves on holds a row.
LEMMA RevokersStep ==
  ASSUME TypeOK, RevokersHoldRows, RowsKept, NEW S, NEW w \in Workers, NEW j,
         j.pc \in RevokingSteps => cancels'[j.key][j.row].status # "none",
         \/ job' = job
         \/ job' = Saved(S)
         \/ job' = [ job EXCEPT ![w] = j ]
         \/ job' = [ Saved(S) EXCEPT ![w] = j ]
  PROVE  RevokersHoldRows'
  <1>1. \A v \in Workers : /\ job[v].pc \in RevokingSteps =>
                                cancels'[job[v].key][job[v].row].status # "none"
                           /\ Saved(S)[v].pc \in RevokingSteps =>
                                cancels'[Saved(S)[v].key][Saved(S)[v].row].status # "none"
    <2>1. SUFFICES ASSUME NEW v \in Workers, job[v].pc \in RevokingSteps
                   PROVE  cancels'[job[v].key][job[v].row].status # "none"
      BY SavedFacts
    <2>2. cancels[job[v].key][job[v].row].status # "none"
      BY <2>1 DEF RevokersHoldRows, RowClaimed, RevokingSteps
    <2>3. job[v].key \in Cases /\ job[v].row \in CancelRows
      BY <2>1, JobFacts DEF RevokingSteps
    <2>4. QED
      BY <2>2, <2>3 DEF RowsKept
  <1>2. Saved(S) \in [ Workers -> Jobs ] /\ job \in [ Workers -> Jobs ]
    BY SavedFacts DEF TypeOK
  <1>3. \A v \in Workers : job'[v].pc \in RevokingSteps =>
          cancels'[job'[v].key][job'[v].row].status # "none"
    BY <1>1, <1>2
  <1>4. QED
    BY <1>3 DEF RevokersHoldRows, RowClaimed, RevokingSteps

\* Writing a row that is not empty forgets no row.
LEMMA RowWritten ==
  ASSUME TypeOK, NEW k \in Cases, NEW r \in CancelRows, NEW x, x.status # "none",
         cancels' = [ cancels EXCEPT ![k][r] = x ]
  PROVE  RowsKept /\ cancels'[k][r].status # "none"
  <1>1. cancels \in [ Cases -> [ CancelRows -> CancelRecords ] ]
    BY TypeParts DEF CancelsOK
  <1>2. \A i \in Cases, q \in CancelRows :
          cancels'[i][q] = IF i = k /\ q = r THEN x ELSE cancels[i][q]
    BY <1>1
  <1>3. QED
    BY <1>2 DEF RowsKept

\* Claiming a row, or settling it, forgets no row.
LEMMA RowsKeptBy ==
  ASSUME TypeOK, NEW k \in Cases, NEW r \in CancelRows
  PROVE  /\ cancels' = cancels => RowsKept
         /\ \A n : cancels' = [ cancels EXCEPT ![k][r] = Claimed(@, n) ] =>
              RowsKept /\ cancels'[k][r].status # "none"
         /\ \A s \in { "succeeded", "failed" } :
              cancels' = [ cancels EXCEPT ![k][r].status = s ] => RowsKept
  <1>0. cancels[k][r] \in CancelRecords /\ cancels \in [ Cases -> [ CancelRows -> CancelRecords ] ]
    BY TypeParts DEF CancelsOK
  <1>1. cancels' = cancels => RowsKept
    BY DEF RowsKept
  <1>2. ASSUME NEW n, cancels' = [ cancels EXCEPT ![k][r] = Claimed(@, n) ]
        PROVE  RowsKept /\ cancels'[k][r].status # "none"
    <2> DEFINE x == Claimed(cancels[k][r], n)
    <2>1. x.status # "none"
      BY <1>0 DEF Claimed, CancelRecords
    <2>2. cancels' = [ cancels EXCEPT ![k][r] = x ]
      BY <1>2
    <2> HIDE DEF x
    <2>3. QED
      BY <2>1, <2>2, RowWritten
  <1>3. ASSUME NEW s \in { "succeeded", "failed" },
               cancels' = [ cancels EXCEPT ![k][r].status = s ]
        PROVE  RowsKept
    <2> DEFINE x == [ cancels[k][r] EXCEPT !.status = s ]
    <2>1. x.status # "none"
      BY <1>0 DEF CancelRecords
    <2>2. [ cancels[k] EXCEPT ![r].status = s ] = [ cancels[k] EXCEPT ![r] = x ]
      BY <1>0
    <2>3. cancels' = [ cancels EXCEPT ![k][r] = x ]
      BY <1>0, <1>3, <2>2
    <2> HIDE DEF x
    <2>4. QED
      BY <2>1, <2>3, RowWritten
  <1>4. QED
    BY <1>1, <1>2, <1>3

\* A worker's step keeps RevokersHoldRows.
LEMMA WorkKeepsRevokers ==
  ASSUME TypeOK, RevokersHoldRows, NEW w \in Workers, Work(w)
  PROVE  RevokersHoldRows'
  <1> DEFINE j == job[w]
  <1>1. j \in Jobs /\ j.row \in CancelRows /\ (j.pc # "idle" => j.key \in Cases)
        /\ job \in [ Workers -> Jobs ]
    BY JobFacts DEF TypeOK
  <1>2. IdleJob.pc \notin RevokingSteps
    BY IdleJobOK DEF RevokingSteps
  <1>3. CASE Consider(w) \/ ClaimCreate(w) \/ ProviderCreates(w) \/ ProviderRefuses(w)
             \/ Supersede(w) \/ RecordCreated(w) \/ Commit(w) \/ RecordUncreated(w)
             \/ PreviewSave(w)
    <2>1. cancels' = cancels /\ j.pc # "idle"
      BY <1>3 DEF Consider, ClaimCreate, ProviderCreates, ProviderRefuses, Supersede,
                  RecordCreated, Commit, RecordUncreated, PreviewSave, db
    <2>2. RowsKept
      BY <2>1 DEF RowsKept
    <2>3. \E S, i : /\ i.pc \notin RevokingSteps
                    /\ \/ job' = [ job EXCEPT ![w] = i ]
                       \/ job' = [ Saved(S) EXCEPT ![w] = i ]
      <3>1. CASE Consider(w)
        <4> DEFINE P(d) == [ IdleJob EXCEPT !.pc = "commit", !.key = j.key,
                               !.stale = j.stale, !.at = j.at, !.to = d ]
                   C == [ IdleJob EXCEPT !.pc = "claim", !.key = j.key, !.at = j.at,
                                         !.amount = j.snap.amount ]
        <4>1. (\A d : P(d).pc = "commit") /\ C.pc = "claim"
          BY DEF IdleJob
        <4>2. (\E d : job' = [ job EXCEPT ![w] = P(d) ]) \/ job' = [ job EXCEPT ![w] = C ]
          BY <3>1 DEF Consider
        <4> HIDE DEF P, C
        <4>3. QED
          BY <4>1, <4>2 DEF RevokingSteps
      <3>2. CASE ClaimCreate(w) \/ RecordCreated(w)
        <4> DEFINE a == [ j EXCEPT !.pc = "create" ]
                   b == [ j EXCEPT !.pc = "supersede" ]
        <4>1. a.pc = "create" /\ b.pc = "supersede"
          BY <1>1 DEF Jobs
        <4>2. \/ job' = [ job EXCEPT ![w] = a ] \/ job' = [ job EXCEPT ![w] = b ]
              \/ job' = [ job EXCEPT ![w] = IdleJob ]
              \/ job' = [ Saved({ j.key }) EXCEPT ![w] = IdleJob ]
          BY <3>2 DEF ClaimCreate, RecordCreated
        <4> HIDE DEF a, b
        <4>3. QED
          BY <1>2, <4>1, <4>2 DEF RevokingSteps
      <3>3. CASE ProviderCreates(w) \/ ProviderRefuses(w)
        <4> DEFINE a(n) == [ j EXCEPT !.pc = "created", !.link = n ]
                   b(r) == [ j EXCEPT !.pc = "uncreated", !.to.reason = r ]
        <4>1. (\A n : a(n).pc = "created") /\ (\A r : b(r).pc = "uncreated")
          BY <1>1 DEF Jobs
        <4> DEFINE A == \E n : job' = [ job EXCEPT ![w] = a(n) ]
                   B == \E r : job' = [ job EXCEPT ![w] = b(r) ]
        <4>2. ProviderCreates(w) => A \/ B
          <5>1. ASSUME ProviderCreates(w),
                       job' = [ job EXCEPT ![w].pc = "created",
                                           ![w].link = created[j.key] + 1 ]
                PROVE  A
            BY <5>1
          <5>2. ASSUME NEW r, job' = [ job EXCEPT ![w].pc = "uncreated",
                                                  ![w].to.reason = r ]
                PROVE  B
            BY <5>2
          <5> HIDE DEF A, B
          <5>3. QED
            BY <5>1, <5>2 DEF ProviderCreates
        <4>3. ProviderRefuses(w) => B
          <5>1. ASSUME NEW r, job' = [ job EXCEPT ![w].pc = "uncreated",
                                                  ![w].to.reason = r ]
                PROVE  B
            BY <5>1
          <5> HIDE DEF B
          <5>2. QED
            BY <5>1 DEF ProviderRefuses
        <4> HIDE DEF a, b
        <4>4. QED
          BY <3>3, <4>1, <4>2, <4>3 DEF RevokingSteps
      <3>4. CASE Supersede(w) \/ Commit(w) \/ RecordUncreated(w) \/ PreviewSave(w)
        <4>1. \/ job' = [ job EXCEPT ![w] = IdleJob ]
              \/ job' = [ Saved({ j.key }) EXCEPT ![w] = IdleJob ]
          BY <3>4 DEF Supersede, Commit, RecordUncreated, PreviewSave
        <4>2. QED
          BY <1>2, <4>1
      <3>5. QED
        BY <1>3, <3>1, <3>2, <3>3, <3>4
    <2>4. QED
      BY <2>2, <2>3, RevokersStep
  <1>4. CASE CancelCall(w)
    <2> DEFINE a == [ j EXCEPT !.pc = "cancelled", !.status = plink'[j.key][j.link] ]
               b == [ j EXCEPT !.pc = "uncancelled" ]
    <2>1. j.pc = "cancel" /\ cancels' = cancels
      BY <1>4 DEF CancelCall, db
    <2>2. a.key = j.key /\ a.row = j.row /\ b.key = j.key /\ b.row = j.row
      BY <1>1 DEF Jobs
    <2>3. cancels'[j.key][j.row].status # "none"
      BY <2>1 DEF RevokersHoldRows, RowClaimed
    <2>4. job' = [ job EXCEPT ![w] = a ] \/ job' = [ job EXCEPT ![w] = b ]
      BY <1>1, <1>4 DEF CancelCall
    <2> HIDE DEF a, b
    <2>5. RowsKept
      BY <2>1 DEF RowsKept
    <2>6. QED
      BY <2>2, <2>3, <2>4, <2>5, RevokersStep
  <1>5. CASE RecordCancelled(w) \/ RecordUncancelled(w)
    <2>1. j.key \in Cases
      BY <1>1, <1>5 DEF RecordCancelled, RecordUncancelled
    <2>2. RowsKept
      BY <1>1, <1>5, <2>1, RowsKeptBy DEF RecordCancelled, RecordUncancelled
    <2>3. job' = [ Saved({ j.key }) EXCEPT ![w] = IdleJob ]
      BY <1>5 DEF RecordCancelled, RecordUncancelled
    <2>4. QED
      BY <1>2, <2>2, <2>3, RevokersStep
  <1>6. CASE Sweep(w)
    <2> DEFINE i == CancelJob(j.key, j.row, j.link)
    <2>1. j.key \in Cases
      BY <1>1, <1>6 DEF Sweep
    <2>2. CASE job' = [ job EXCEPT ![w] = IdleJob ]
               /\ (cancels' = cancels
                   \/ cancels' = [ cancels EXCEPT ![j.key][j.row].status = "succeeded" ])
      <3>1. RowsKept
        BY <1>1, <2>1, <2>2, RowsKeptBy
      <3>2. QED
        BY <1>2, <2>2, <3>1, RevokersStep
    <2>3. CASE job' = [ job EXCEPT ![w] = i ]
               /\ cancels' = [ cancels EXCEPT ![j.key][j.row] = Claimed(@, j.link) ]
      <3>1. RowsKept /\ cancels'[j.key][j.row].status # "none"
        BY <1>1, <2>1, <2>3, RowsKeptBy
      <3>2. i.key = j.key /\ i.row = j.row
        BY DEF CancelJob, IdleJob
      <3> HIDE DEF i
      <3>3. QED
        BY <2>3, <3>1, <3>2, RevokersStep
    <2>4. QED
      BY <1>6, <2>2, <2>3 DEF Sweep
  <1>7. QED
    BY <1>3, <1>4, <1>5, <1>6 DEF Work

\* The start of a request keeps RevokersHoldRows.
LEMMA StartKeepsRevokers ==
  ASSUME TypeOK, RevokersHoldRows, NEW w \in Workers, Start(w)
  PROVE  RevokersHoldRows'
  <1>1. IdleJob.pc \notin RevokingSteps
    BY IdleJobOK DEF RevokingSteps
  <1>2. ASSUME NEW e \in sent, IngestFailure(w, e) \/ IngestLink(w, e)
        PROVE  RevokersHoldRows'
    <2>1. RowsKept
      BY <1>2 DEF IngestFailure, IngestLink, RowsKept
    <2>2. \E S : job' = job \/ job' = Saved(S)
      BY <1>2 DEF IngestFailure, IngestLink
    <2>3. QED
      BY <1>1, <2>1, <2>2, RevokersStep
  <1>3. ASSUME NEW k \in Cases, NEW r \in CancelRows, NEW n, NEW S,
               cancels' = [ cancels EXCEPT ![k][r] = Claimed(@, n) ],
               job' = [ Saved(S) EXCEPT ![w] = CancelJob(k, r, n) ]
        PROVE  RevokersHoldRows'
    <2> DEFINE i == CancelJob(k, r, n)
    <2>1. RowsKept /\ cancels'[k][r].status # "none"
      BY <1>3, RowsKeptBy
    <2>2. i.key = k /\ i.row = r
      BY DEF CancelJob, IdleJob
    <2>3. job' = [ Saved(S) EXCEPT ![w] = i ]
      BY <1>3
    <2> HIDE DEF i
    <2>4. QED
      BY <2>1, <2>2, <2>3, RevokersStep
  <1>4. ASSUME NEW S, cancels' = cancels, job' = job \/ job' = Saved(S)
        PROVE  RevokersHoldRows'
    <2>1. RowsKept
      BY <1>4 DEF RowsKept
    <2>2. QED
      BY <1>1, <1>4, <2>1, RevokersStep
  <1>5. ASSUME NEW e \in sent, IngestSuccess(w, e)
        PROVE  RevokersHoldRows'
    <2> DEFINE k == e.key
               n == cases[k].link
    <2>1. k \in Cases
      BY <1>5, ReceiveFacts DEF IngestSuccess
    <2>2. n \in CancelRows
      BY <2>1, CaseFacts
    <2>3. \/ /\ cancels' = [ cancels EXCEPT ![k][n] = Claimed(@, n) ]
             /\ job' = [ Saved({ k }) EXCEPT ![w] = CancelJob(k, n, n) ]
          \/ cancels' = cancels /\ (job' = job \/ job' = Saved({ k }))
      BY <1>5 DEF IngestSuccess
    <2>4. QED
      BY <1>3, <1>4, <2>1, <2>2, <2>3
  <1>6. ASSUME NEW e \in sent, IngestReversal(w, e)
        PROVE  RevokersHoldRows'
    <2> DEFINE k == e.key
               n == cases[k].link
    <2>1. k \in Cases /\ ReversalRow \in CancelRows
      BY <1>6, ReceiveFacts, IdleParts DEF IngestReversal, ReversalRow
    <2>2. \E S :
            \/ /\ cancels' = [ cancels EXCEPT ![k][ReversalRow] = Claimed(@, n) ]
               /\ job' = [ Saved(S) EXCEPT ![w] = CancelJob(k, ReversalRow, n) ]
            \/ cancels' = cancels /\ (job' = job \/ job' = Saved(S))
      BY <1>6 DEF IngestReversal
    <2>3. QED
      BY <1>3, <1>4, <2>1, <2>2
  <1>7. ASSUME NEW k \in Cases, Pick(w, k) \/ PreviewRead(w, k)
        PROVE  RevokersHoldRows'
    <2> DEFINE a == [ IdleJob EXCEPT !.pc = "consider", !.key = k,
                        !.snap = cases[k], !.at = now ]
               b == [ IdleJob EXCEPT !.pc = "draft", !.key = k, !.link = cases[k].link ]
    <2>1. a.pc = "consider" /\ b.pc = "draft"
      BY DEF IdleJob
    <2>2. job' = [ job EXCEPT ![w] = a ] \/ job' = [ job EXCEPT ![w] = b ]
      BY <1>7 DEF Pick, PreviewRead
    <2> HIDE DEF a, b
    <2>3. RowsKept
      BY <1>7 DEF Pick, PreviewRead, db, RowsKept
    <2>4. QED
      BY <2>1, <2>2, <2>3, RevokersStep DEF RevokingSteps
  <1>8. ASSUME NEW k \in Cases, NEW r \in CancelRows, SweepRead(w, k, r)
        PROVE  RevokersHoldRows'
    <2> DEFINE a == [ IdleJob EXCEPT !.pc = "sweep", !.key = k, !.row = r,
                        !.link = cancels[k][r].link, !.status = cases[k].lstat ]
    <2>1. a.key = k /\ a.row = r
      BY DEF IdleJob
    <2>2. job' = [ job EXCEPT ![w] = a ] /\ cancels' = cancels
          /\ cancels[k][r].status = "failed"
      BY <1>8 DEF SweepRead, db
    <2> HIDE DEF a
    <2>3. RowsKept /\ cancels'[k][r].status # "none"
      BY <2>2 DEF RowsKept
    <2>4. QED
      BY <2>1, <2>2, <2>3, RevokersStep
  <1>9. QED
    BY <1>2, <1>5, <1>6, <1>7, <1>8 DEF Start, Ingest

\* Operators, the environment and a crash keep RevokersHoldRows.
LEMMA OthersKeepRevokers ==
  ASSUME TypeOK, RevokersHoldRows, Operator \/ Environment \/ Crash
  PROVE  RevokersHoldRows'
  <1>1. CASE Environment
    <2>1. UNCHANGED << cancels, job >>
      BY <1>1 DEF Environment, Decline, Authorise, Capture, PayLink, CloseLink,
                  Reverse, Tick, db
    <2>2. QED
      BY <2>1 DEF RevokersHoldRows, RowClaimed
  <1>2. CASE Operator
    <2>1. cancels' = cancels /\ \E S : job' = Saved(S)
      BY <1>2 DEF Operator, Reopen
    <2>2. QED
      BY <2>1, SavedFacts DEF RevokersHoldRows, RowClaimed
  <1>3. CASE Crash
    <2>1. \A w \in Workers : job'[w] = IdleJob
      BY <1>3 DEF Crash
    <2>2. QED
      BY <2>1, IdleJobOK DEF RevokersHoldRows, RowClaimed
  <1>4. QED
    BY <1>1, <1>2, <1>3

-----------------------------------------------------------------------------
TypeInv == TypeOK /\ RevokersHoldRows

\* The initial state is well formed.
LEMMA InitType == Init => TypeInv
  <1> SUFFICES ASSUME Init PROVE TypeInv
    OBVIOUS
  <1>1. cases \in [ Cases -> CaseRecords ] /\ \A k \in Cases : cases[k].link = NoLink
    BY CaseConstants DEF Init, AbsentCase, NewCase
  <1>2. created \in [ Cases -> 0 .. MaxLinks ] /\ \A k \in Cases : created[k] = 0
    BY RecoveryAssumption DEF Init
  <1>3. CasesOK
    BY <1>1, <1>2 DEF CasesOK, NoLink
  <1>4. CancelsOK
    BY DEF Init, CancelsOK, CancelRecords, NoLink
  <1>5. JobsOK
    BY IdleJobOK DEF Init, JobsOK
  <1>6. RestOK
    BY <1>2, FS_EmptySet DEF Init, RestOK, LinkStatuses, Time
  <1>7. RevokersHoldRows
    BY IdleJobOK DEF Init, RevokersHoldRows, RowClaimed
  <1>8. QED
    BY <1>3, <1>4, <1>5, <1>6, <1>7, TypeParts DEF TypeInv

\* Every step keeps the state well formed.
LEMMA NextType == TypeInv /\ [Next]_vars => TypeInv'
  <1> SUFFICES ASSUME TypeOK, RevokersHoldRows, [Next]_vars PROVE TypeInv'
    BY DEF TypeInv
  <1>1. ASSUME NEW w \in Workers, Work(w)
        PROVE  TypeInv'
    <2>1. RowClaimed(w)
      BY DEF RevokersHoldRows
    <2>2. TypeOK'
      BY <1>1, <2>1, ConsiderKeepsType, CommitKeepsType, ClaimCreateKeepsType,
         ProviderCreatesKeepsType, ProviderRefusesKeepsType,
         RecordUncreatedKeepsType, RecordCreatedKeepsType, SupersedeKeepsType,
         CancelCallKeepsType, RecordCancelledKeepsType, RecordUncancelledKeepsType,
         SweepKeepsType, PreviewSaveKeepsType DEF Work
    <2>3. QED
      BY <1>1, <2>2, WorkKeepsRevokers DEF TypeInv
  <1>2. ASSUME NEW w \in Workers, Start(w)
        PROVE  TypeInv'
    <2>1. TypeOK'
      BY <1>2, FailureKeepsType, SuccessKeepsType, LinkKeepsType, ReversalKeepsType,
         PickKeepsType, PreviewReadKeepsType, SweepReadKeepsType DEF Start, Ingest
    <2>2. QED
      BY <1>2, <2>1, StartKeepsRevokers DEF TypeInv
  <1>3. CASE Operator \/ Environment \/ Crash
    <2>1. TypeOK'
      BY <1>3, ReopenKeepsType, EnvironmentKeepsType, CrashKeepsType DEF Operator
    <2>2. QED
      BY <1>3, <2>1, OthersKeepRevokers DEF TypeInv
  <1>4. CASE UNCHANGED vars
    BY <1>4 DEF vars, db, provider, bounded, TypeInv, TypeOK, RefsOK,
                RevokersHoldRows, RowClaimed
  <1>5. QED
    BY <1>1, <1>2, <1>3, <1>4 DEF Next

\* Every reachable state of the recovery service is well formed, and no case,
\* ledger row or worker ever names a link the provider did not create.
THEOREM TypeCorrect == Spec => []TypeOK
  <1>1. TypeInv => TypeOK
    BY DEF TypeInv
  <1>2. QED
    BY <1>1, InitType, NextType, PTL DEF Spec

\* The inductive invariant itself, for the other proofs.
THEOREM TypeInvariant == Spec => []TypeInv
  BY InitType, NextType, PTL DEF Spec

-----------------------------------------------------------------------------
(* How workers move on *)

\* A request of one worker changes no other worker's job but for staleness.
LEMMA OtherWorkers ==
  ASSUME TypeInv, NEW w \in Workers, Work(w) \/ Start(w)
  PROVE  \A v \in Workers \ { w } :
            /\ job'[v].pc = job[v].pc /\ job'[v].key = job[v].key
            /\ job'[v].to = job[v].to /\ job'[v].at = job[v].at
  <1>0. TypeOK /\ job \in [ Workers -> Jobs ]
    BY DEF TypeInv, TypeOK
  <1>1. \E S, j : \/ job' = job
                  \/ job' = Saved(S)
                  \/ job' = [ job EXCEPT ![w] = j ]
                  \/ job' = [ Saved(S) EXCEPT ![w] = j ]
    <2>1. CASE Work(w)
      <3>1. CASE ProviderCreates(w) \/ ProviderRefuses(w) \/ CancelCall(w) \/ ClaimCreate(w)
        <4>1. /\ job' \in [ Workers -> Jobs ]
              /\ \A v \in Workers \ { w } : job'[v] = job[v]
          <5>1. job' \in [ Workers -> Jobs ]
            BY NextType, <2>1 DEF TypeInv, TypeOK, Next
          <5>2. \A v \in Workers \ { w } : job'[v] = job[v]
            BY <1>0, <3>1 DEF ProviderCreates, ProviderRefuses, CancelCall, ClaimCreate
          <5>3. QED
            BY <5>1, <5>2
        <4>2. job' = [ job EXCEPT ![w] = job'[w] ]
          BY <1>0, <4>1
        <4>3. QED
          BY <4>2
      <3>2. CASE Consider(w) \/ Commit(w) \/ RecordUncreated(w)
                 \/ Supersede(w) \/ RecordCancelled(w) \/ RecordUncancelled(w)
                 \/ Sweep(w) \/ PreviewSave(w)
        BY <3>2 DEF Consider, Commit, RecordUncreated, Supersede,
                    RecordCancelled, RecordUncancelled, Sweep, PreviewSave
      <3>3. CASE RecordCreated(w)
        BY <3>3 DEF RecordCreated
      <3>4. QED
        BY <2>1, <3>1, <3>2, <3>3 DEF Work
    <2>2. CASE Start(w)
      <3>1. CASE \E e \in sent : IngestFailure(w, e) \/ IngestLink(w, e)
        BY <3>1 DEF IngestFailure, IngestLink
      <3>2. CASE \E e \in sent : IngestSuccess(w, e)
        BY <3>2 DEF IngestSuccess
      <3>3. CASE \E e \in sent : IngestReversal(w, e)
        BY <3>3 DEF IngestReversal
      <3>4. CASE \E k \in Cases : Pick(w, k)
        BY <3>4 DEF Pick
      <3>5. CASE \E k \in Cases : PreviewRead(w, k)
        BY <3>5 DEF PreviewRead
      <3>6. CASE \E k \in Cases, r \in CancelRows : SweepRead(w, k, r)
        BY <3>6 DEF SweepRead
      <3>7. QED
        BY <2>2, <3>1, <3>2, <3>3, <3>4, <3>5, <3>6 DEF Start, Ingest
    <2>3. QED
      BY <2>1, <2>2
  <1>2. PICK S, j : \/ job' = job
                    \/ job' = Saved(S)
                    \/ job' = [ job EXCEPT ![w] = j ]
                    \/ job' = [ Saved(S) EXCEPT ![w] = j ]
    BY <1>1
  <1>3. /\ Saved(S) \in [ Workers -> Jobs ]
        /\ \A v \in Workers : /\ Saved(S)[v].pc = job[v].pc
                              /\ Saved(S)[v].key = job[v].key
                              /\ Saved(S)[v].to = job[v].to
                              /\ Saved(S)[v].at = job[v].at
    BY <1>0, SavedFacts
  <1>4. QED
    BY <1>0, <1>2, <1>3

\* A webhook leaves its worker idle, or with a link to revoke.
LEMMA IngestEnds ==
  ASSUME TypeOK, NEW w \in Workers, NEW e \in sent, Ingest(w, e)
  PROVE  job'[w].pc \in { "idle", "cancel" }
  <1>0. job \in [ Workers -> Jobs ] /\ job[w].pc = "idle"
    BY DEF TypeOK, Ingest, IngestFailure, IngestSuccess, IngestLink, IngestReversal,
           Receive, Idle
  <1>1. \A S : Saved(S)[w].pc = "idle" /\ Saved(S) \in [ Workers -> Jobs ]
    BY <1>0, SavedFacts
  <1>2. \A k, r, n : CancelJob(k, r, n).pc = "cancel"
    BY DEF CancelJob, IdleJob
  <1>3. \E S, k, r, n : \/ job' = job \/ job' = Saved(S)
                        \/ job' = [ Saved(S) EXCEPT ![w] = CancelJob(k, r, n) ]
    <2>1. CASE IngestFailure(w, e) \/ IngestLink(w, e)
      BY <2>1 DEF IngestFailure, IngestLink
    <2>2. CASE IngestSuccess(w, e)
      <3> DEFINE n == cases[e.key].link
                 s == /\ HasCancellableLink(cases[e.key])
                      /\ Claimable(cancels[e.key][n])
      <3>1. \/ job' = job
            \/ job' = IF s THEN [ Saved({ e.key }) EXCEPT ![w] = CancelJob(e.key, n, n) ]
                      ELSE Saved({ e.key })
        BY <2>2 DEF IngestSuccess
      <3> HIDE DEF n, s
      <3>2. QED
        BY <3>1
    <2>3. CASE IngestReversal(w, e)
      BY <2>3 DEF IngestReversal
    <2>4. QED
      BY <2>1, <2>2, <2>3 DEF Ingest
  <1>4. QED
    BY <1>0, <1>1, <1>2, <1>3

\* A request that starts does not start in the middle: a worker creates a
\* link only after claiming it and commits only what it has considered.
LEMMA StartsIdle ==
  ASSUME TypeInv, NEW w \in Workers, Start(w)
  PROVE  job'[w].pc \in { "idle", "consider", "draft", "sweep", "cancel" }
  <1>0. TypeOK /\ job \in [ Workers -> Jobs ]
    BY DEF TypeInv, TypeOK
  <1>1. ASSUME NEW e \in sent, Ingest(w, e)
        PROVE  job'[w].pc \in { "idle", "cancel" }
    BY <1>0, <1>1, IngestEnds
  <1>2. ASSUME NEW k \in Cases, Pick(w, k) \/ PreviewRead(w, k)
        PROVE  job'[w].pc \in { "consider", "draft" }
    <2>1. CASE Pick(w, k)
      BY <1>0, <2>1 DEF Pick, IdleJob
    <2>2. CASE PreviewRead(w, k)
      BY <1>0, <2>2 DEF PreviewRead, IdleJob
    <2>3. QED
      BY <1>2, <2>1, <2>2
  <1>3. ASSUME NEW k \in Cases, NEW r \in CancelRows, SweepRead(w, k, r)
        PROVE  job'[w].pc = "sweep"
    BY <1>0, <1>3 DEF SweepRead, IdleJob
  <1>4. QED
    BY <1>1, <1>2, <1>3 DEF Start

-----------------------------------------------------------------------------
(* One link per invoice *)

\* The ledger row of a creation is claimed once and never freed: an unclaimed
\* row has no link and nobody creating one, and whoever creates is alone.
CreateInv ==
    /\ \A k \in Cases : created[k] <= 1
    /\ \A k \in Cases : creates[k] = "none" => created[k] = 0
    /\ \A w \in Workers : job[w].pc = "create" =>
          creates[job[w].key] # "none" /\ created[job[w].key] = 0
    /\ \A v, w \in Workers :
          job[v].pc = "create" /\ job[w].pc = "create" /\ job[v].key = job[w].key
          => v = w

\* A step that creates no link, frees no row and lets nobody start creating.
QuietCreate ==
    /\ created' = created
    /\ \A k \in Cases : creates'[k] = "none" => creates[k] = "none"
    /\ \A w \in Workers : job'[w].pc = "create" =>
          job[w].pc = "create" /\ job'[w].key = job[w].key

\* Such a step keeps CreateInv.
LEMMA QuietKeepsCreate ==
  ASSUME TypeOK, CreateInv, QuietCreate
  PROVE  CreateInv'
  <1>1. \A w \in Workers : job[w].pc = "create" => job[w].key \in Cases
    BY JobFacts
  <1>2. QED
    BY <1>1 DEF CreateInv, QuietCreate

\* Every worker's step keeps CreateInv.
LEMMA WorkKeepsCreate ==
  ASSUME TypeInv, CreateInv, NEW w \in Workers, Work(w)
  PROVE  CreateInv'
  <1> DEFINE j == job[w]
  <1>0. TypeOK /\ job \in [ Workers -> Jobs ] /\ j \in Jobs
    BY JobFacts DEF TypeInv, TypeOK
  <1>1. \A v \in Workers \ { w } : job'[v].pc = job[v].pc /\ job'[v].key = job[v].key
    BY OtherWorkers
  <1>2. IdleJob.pc = "idle"
    BY IdleJobOK
  <1>3. \A S : Saved(S) \in [ Workers -> Jobs ]
    BY <1>0, SavedFacts
  <1>4. creates \in [ Cases -> { "none", "started", "succeeded", "failed",
                                 "superseded" } ]
    BY <1>0 DEF TypeOK
  <1>5. CASE ClaimCreate(w)
    <2>1. j.pc = "claim" /\ created' = created /\ j.key \in Cases
      BY <1>0, <1>5, JobFacts DEF ClaimCreate, provider
    <2>2. CASE creates[j.key] # "none"
      <3>1. creates' = creates /\ job'[w] = IdleJob
        BY <1>0, <1>5, <2>2 DEF ClaimCreate, CreateClaimable
      <3>2. QuietCreate
        BY <1>1, <1>2, <2>1, <3>1 DEF QuietCreate
      <3>3. QED
        BY <1>0, <3>2, QuietKeepsCreate
    <2>3. CASE creates[j.key] = "none"
      <3>1. /\ creates' = [ creates EXCEPT ![j.key] = "started" ]
            /\ job'[w].pc = "create" /\ job'[w].key = j.key
        BY <1>0, <1>5, <2>3 DEF ClaimCreate, CreateClaimable, Jobs
      <3>2. created[j.key] = 0
        BY <2>1, <2>3 DEF CreateInv
      <3>3. \A v \in Workers \ { w } : job[v].pc = "create" => job[v].key # j.key
        BY <2>3 DEF CreateInv
      <3>4. \A v \in Workers : job[v].pc = "create" => job[v].key \in Cases
        BY <1>0, JobFacts
      <3>5. \A k \in Cases : creates'[k] = IF k = j.key THEN "started" ELSE creates[k]
        BY <1>4, <2>1, <3>1
      <3>6. \A v \in Workers : job'[v].pc = "create" =>
              creates'[job'[v].key] # "none" /\ created'[job'[v].key] = 0
        BY <1>1, <2>1, <3>1, <3>2, <3>4, <3>5 DEF CreateInv
      <3>7. \A u, v \in Workers :
              job'[u].pc = "create" /\ job'[v].pc = "create" /\ job'[u].key = job'[v].key
              => u = v
        BY <1>1, <3>1, <3>3 DEF CreateInv
      <3>8. \A k \in Cases : created'[k] <= 1 /\ (creates'[k] = "none" => created'[k] = 0)
        BY <2>1, <3>5 DEF CreateInv
      <3>9. QED
        BY <3>6, <3>7, <3>8 DEF CreateInv
    <2>4. QED
      BY <2>2, <2>3
  <1>6. CASE ProviderCreates(w)
    <2>1. /\ j.pc = "create" /\ j.key \in Cases /\ creates' = creates
          /\ created' = [ created EXCEPT ![j.key] = created[j.key] + 1 ]
      BY <1>0, <1>6, JobFacts DEF ProviderCreates, db
    <2>2. created[j.key] = 0 /\ creates[j.key] # "none"
      BY <2>1 DEF CreateInv
    <2>3. job'[w].pc \in { "created", "uncreated" }
      BY <1>0, <1>6 DEF ProviderCreates, Jobs
    <2>4. created \in [ Cases -> 0 .. MaxLinks ]
      BY <1>0 DEF TypeOK
    <2>5. \A k \in Cases : created'[k] = IF k = j.key THEN 1 ELSE created[k]
      BY <2>1, <2>2, <2>4
    <2>6. \A v \in Workers : job'[v].pc = "create" =>
            v # w /\ job[v].pc = "create" /\ job'[v].key = job[v].key
            /\ job[v].key # j.key /\ job[v].key \in Cases
      BY <1>0, <1>1, <2>1, <2>3, JobFacts DEF CreateInv
    <2>7. QED
      BY <2>1, <2>2, <2>5, <2>6 DEF CreateInv
  <1>7. CASE ~ClaimCreate(w) /\ ~ProviderCreates(w)
    <2>1. created' = created
      BY <1>7 DEF Work, Consider, Commit, ProviderRefuses, RecordUncreated,
                  RecordCreated, Supersede, CancelCall, RecordCancelled,
                  RecordUncancelled, Sweep, PreviewSave, provider
    <2>2. \A k \in Cases : creates'[k] = "none" => creates[k] = "none"
      <3>1. \/ creates' = creates
            \/ \E s \in { "failed", "succeeded", "superseded" } :
                  creates' = [ creates EXCEPT ![j.key] = s ]
        BY <1>7 DEF Work, Consider, Commit, ProviderRefuses, RecordUncreated,
                    RecordCreated, Supersede, CancelCall, RecordCancelled,
                    RecordUncancelled, Sweep, PreviewSave, db
      <3>2. QED
        BY <1>4, <3>1
    <2>3. job'[w].pc # "create"
      <3>1. CASE Consider(w)
        <4> DEFINE P(d) == [ IdleJob EXCEPT !.pc = "commit", !.key = j.key,
                               !.stale = j.stale, !.at = j.at, !.to = d ]
                   C == [ IdleJob EXCEPT !.pc = "claim", !.key = j.key, !.at = j.at,
                                         !.amount = j.snap.amount ]
        <4>1. (\A d : P(d).pc = "commit") /\ C.pc = "claim"
          BY DEF IdleJob
        <4>2. (\E d : job' = [ job EXCEPT ![w] = P(d) ]) \/ job' = [ job EXCEPT ![w] = C ]
          BY <3>1 DEF Consider
        <4> HIDE DEF P, C
        <4>3. QED
          BY <1>0, <4>1, <4>2
      <3>2. CASE Commit(w) \/ RecordUncreated(w) \/ Supersede(w) \/ RecordCancelled(w)
                 \/ RecordUncancelled(w) \/ PreviewSave(w)
        <4>1. \/ job' = [ job EXCEPT ![w] = IdleJob ]
              \/ job' = [ Saved({ j.key }) EXCEPT ![w] = IdleJob ]
          BY <3>2 DEF Commit, RecordUncreated, Supersede, RecordCancelled,
                      RecordUncancelled, PreviewSave
        <4>2. QED
          BY <1>0, <1>2, <1>3, <4>1
      <3>3. CASE ProviderRefuses(w) \/ CancelCall(w)
        BY <1>0, <3>3 DEF ProviderRefuses, CancelCall, Jobs
      <3>4. CASE RecordCreated(w)
        <4>1. \/ job' = [ job EXCEPT ![w].pc = "supersede" ]
              \/ job' = [ Saved({ j.key }) EXCEPT ![w] = IdleJob ]
          BY <3>4 DEF RecordCreated
        <4>2. QED
          BY <1>0, <1>2, <1>3, <4>1 DEF Jobs
      <3>5. CASE Sweep(w)
        <4>1. job'[w] = IdleJob \/ job'[w] = CancelJob(j.key, j.row, j.link)
          BY <1>0, <3>5 DEF Sweep
        <4>2. CancelJob(j.key, j.row, j.link).pc = "cancel"
          BY DEF CancelJob, IdleJob
        <4>3. QED
          BY <1>2, <4>1, <4>2
      <3>6. QED
        BY <1>7, <3>1, <3>2, <3>3, <3>4, <3>5 DEF Work
    <2>4. QuietCreate
      BY <1>1, <2>1, <2>2, <2>3 DEF QuietCreate
    <2>5. QED
      BY <1>0, <2>4, QuietKeepsCreate
  <1>8. QED
    BY <1>5, <1>6, <1>7

\* Every step keeps CreateInv.
LEMMA NextCreate == TypeInv /\ CreateInv /\ [Next]_vars => CreateInv'
  <1> SUFFICES ASSUME TypeInv, CreateInv, [Next]_vars PROVE CreateInv'
    OBVIOUS
  <1>0. TypeOK
    BY DEF TypeInv
  <1>1. ASSUME NEW w \in Workers, Start(w)
        PROVE  CreateInv'
    <2>1. creates' = creates /\ created' = created
      BY <1>1 DEF Start, Ingest, IngestFailure, IngestSuccess, IngestLink,
                  IngestReversal, Receive, Pick, PreviewRead, SweepRead, db, provider
    <2>2. \A v \in Workers : job'[v].pc = "create" =>
            job[v].pc = "create" /\ job'[v].key = job[v].key
      BY <1>1, OtherWorkers, StartsIdle
    <2>3. QED
      BY <1>0, <2>1, <2>2, QuietKeepsCreate DEF QuietCreate
  <1>2. CASE Operator
    <2>1. creates' = creates /\ created' = created /\ \E S : job' = Saved(S)
      BY <1>2 DEF Operator, Reopen, provider
    <2>2. QED
      BY <1>0, <2>1, SavedFacts, QuietKeepsCreate DEF QuietCreate
  <1>3. CASE Environment
    <2>1. creates' = creates /\ created' = created /\ job' = job
      BY <1>3 DEF Environment, Decline, Authorise, Capture, PayLink, CloseLink,
                  Reverse, Tick, db, provider
    <2>2. QED
      BY <1>0, <2>1, QuietKeepsCreate DEF QuietCreate
  <1>4. CASE Crash
    <2>1. creates' = creates /\ created' = created
          /\ \A w \in Workers : job'[w].pc = "idle"
      BY <1>4, IdleJobOK DEF Crash, provider
    <2>2. QED
      BY <1>0, <2>1, QuietKeepsCreate DEF QuietCreate
  <1>5. CASE UNCHANGED vars
    BY <1>5 DEF vars, db, provider, CreateInv
  <1>6. QED
    BY <1>1, <1>2, <1>3, <1>4, <1>5, WorkKeepsCreate DEF Next

\* However many threads race, crash and are retried, the provider is asked
\* for at most one link per invoice.
THEOREM OneLink == Spec => []OneLinkPerInvoice
  <1>1. Init => CreateInv
    BY IdleJobOK DEF Init, CreateInv
  <1>2. CreateInv => OneLinkPerInvoice
    BY DEF CreateInv, OneLinkPerInvoice
  <1>3. QED
    BY <1>1, <1>2, NextCreate, TypeInvariant, PTL DEF Spec

-----------------------------------------------------------------------------
(* How a case row may change *)

\* Every way in which one step may rewrite the row of case k.
RowStep(k) ==
    LET c == cases[k]
    IN \/ cases'[k] = c
       \/ \E e \in EventRecords, b \in BOOLEAN : cases'[k] = HandleFailure(c, e, b)
       \/ /\ c.state # "absent" /\ ~IsFinal(c)
          /\ \E e \in EventRecords, b \in BOOLEAN : cases'[k] = HandleSuccess(c, e, b)
       \/ /\ c.state # "absent"
          /\ \E e \in EventRecords : cases'[k] = HandleLink(c, e)
       \/ c.state # "absent" /\ cases'[k] = HandleReversal(c)
       \/ cases'[k] = [ c EXCEPT !.optout = TRUE ]
       \/ \E w \in Workers : /\ job[w].pc = "commit" /\ job[w].key = k
                             /\ ~IsFinal(c) /\ CanTransition(c.state, job[w].to.state)
                             /\ cases'[k] = Committed(c, job[w].to)
       \/ /\ c.state = "consent_required"
          /\ \E x \in Reasons : cases'[k] =
                [ c EXCEPT !.state = "manual_review", !.reason = x ]
       \/ /\ c.state = "consent_required"
          /\ \E w \in Workers : /\ job[w].pc = "created" /\ job[w].key = k
                                /\ job'[w].pc = "idle"
                                /\ cases'[k] = LinkSent(c, job[w].link, job[w].at)
       \/ \E s \in LinkStatuses : cases'[k] = CancelRecorded(c, s)
       \/ cases'[k] = [ c EXCEPT !.recon = TRUE, !.reason = "payment_link_cancel_failed" ]
       \/ cases'[k] = [ c EXCEPT !.preview = TRUE ]
       \/ /\ c.state = "manual_review"
          /\ \E class \in FailureClasses \cup { "none" }, b \in BOOLEAN :
                cases'[k] = Reopened(c, class, now, b)

\* Every step rewrites every row in one of those ways.
LEMMA RowSteps ==
  ASSUME TypeInv, [Next]_vars, NEW k \in Cases
  PROVE  RowStep(k)
  <1>0. TypeOK /\ cases \in [ Cases -> CaseRecords ] /\ cases[k] \in CaseRecords
    BY DEF TypeInv, TypeOK
  <1>1. ASSUME NEW w \in Workers, Work(w)
        PROVE  RowStep(k)
    <2> DEFINE j == job[w]
    <2>1. j.pc # "idle" => j.key \in Cases
      BY <1>0, JobFacts
    <2>2. CASE Consider(w) \/ ClaimCreate(w) \/ ProviderCreates(w) \/ ProviderRefuses(w)
               \/ Supersede(w) \/ CancelCall(w) \/ Sweep(w)
      <3>1. cases' = cases
        BY <2>2 DEF Consider, ClaimCreate, ProviderCreates, ProviderRefuses,
                    Supersede, CancelCall, Sweep, db
      <3>2. QED
        BY <3>1 DEF RowStep
    <2>3. CASE Commit(w)
      <3>1. j.pc = "commit" /\ j.key \in Cases
        BY <2>1, <2>3 DEF Commit
      <3>2. \/ cases' = cases
            \/ /\ ~IsFinal(cases[j.key]) /\ CanTransition(cases[j.key].state, j.to.state)
               /\ cases' = [ cases EXCEPT ![j.key] = Committed(cases[j.key], j.to) ]
        BY <2>3 DEF Commit
      <3>3. cases'[k] = cases[k]
            \/ /\ j.key = k /\ ~IsFinal(cases[k])
               /\ CanTransition(cases[k].state, j.to.state)
               /\ cases'[k] = Committed(cases[k], j.to)
        BY <1>0, <3>1, <3>2
      <3>4. QED
        BY <3>1, <3>3 DEF RowStep
    <2>4. CASE RecordUncreated(w)
      <3>1. j.key \in Cases /\ j.to.reason \in Reasons
        BY <1>0, <2>1, <2>4, JobFacts DEF RecordUncreated, Decisions
      <3>2. \/ cases' = cases
            \/ /\ cases[j.key].state = "consent_required"
               /\ cases' = [ cases EXCEPT ![j.key].state = "manual_review",
                                          ![j.key].reason = j.to.reason ]
        BY <2>4 DEF RecordUncreated
      <3>3. cases'[k] = cases[k]
            \/ /\ cases[k].state = "consent_required"
               /\ cases'[k] = [ cases[k] EXCEPT !.state = "manual_review",
                                                !.reason = j.to.reason ]
        BY <1>0, <3>1, <3>2
      <3>4. QED
        BY <3>1, <3>3 DEF RowStep
    <2>5. CASE RecordCreated(w)
      <3> DEFINE S == Saved({ j.key })
      <3>1. j.pc = "created" /\ j.key \in Cases
        BY <2>1, <2>5 DEF RecordCreated
      <3>2. \/ cases' = cases
            \/ /\ cases[j.key].state = "consent_required"
               /\ cases' = [ cases EXCEPT ![j.key] =
                               LinkSent(cases[j.key], j.link, j.at) ]
               /\ job' = [ S EXCEPT ![w] = IdleJob ]
        BY <2>5 DEF RecordCreated
      <3>3. S \in [ Workers -> Jobs ] /\ IdleJob.pc = "idle"
        BY <1>0, SavedFacts, IdleJobOK
      <3> HIDE DEF S
      <3>4. cases'[k] = cases[k]
            \/ /\ j.key = k /\ cases[k].state = "consent_required"
               /\ job'[w].pc = "idle"
               /\ cases'[k] = LinkSent(cases[k], j.link, j.at)
        BY <1>0, <3>1, <3>2, <3>3
      <3>5. QED
        BY <3>1, <3>4 DEF RowStep
    <2>6. CASE RecordCancelled(w)
      <3>1. j.key \in Cases /\ j.status \in LinkStatuses
        BY <1>0, <2>1, <2>6, JobFacts DEF RecordCancelled
      <3>2. cases' = [ cases EXCEPT ![j.key] = CancelRecorded(cases[j.key], j.status) ]
        BY <2>6 DEF RecordCancelled
      <3>3. QED
        BY <1>0, <3>1, <3>2 DEF RowStep
    <2>7. CASE RecordUncancelled(w)
      <3>1. j.key \in Cases
        BY <2>1, <2>7 DEF RecordUncancelled
      <3>2. cases' = [ cases EXCEPT ![j.key].recon = TRUE,
                                    ![j.key].reason = "payment_link_cancel_failed" ]
        BY <2>7 DEF RecordUncancelled
      <3>3. cases'[k] = cases[k] \/ cases'[k] =
              [ cases[k] EXCEPT !.recon = TRUE, !.reason = "payment_link_cancel_failed" ]
        BY <1>0, <3>1, <3>2
      <3>4. QED
        BY <3>3 DEF RowStep
    <2>8. CASE PreviewSave(w)
      <3>1. j.key \in Cases
        BY <2>1, <2>8 DEF PreviewSave
      <3>2. cases' = cases \/ cases' = [ cases EXCEPT ![j.key].preview = TRUE ]
        BY <2>8 DEF PreviewSave
      <3>3. cases'[k] = cases[k] \/ cases'[k] = [ cases[k] EXCEPT !.preview = TRUE ]
        BY <1>0, <3>1, <3>2
      <3>4. QED
        BY <3>3 DEF RowStep
    <2>9. QED
      BY <1>1, <2>2, <2>3, <2>4, <2>5, <2>6, <2>7, <2>8 DEF Work
  <1>2. ASSUME NEW w \in Workers, Start(w)
        PROVE  RowStep(k)
    <2>1. ASSUME NEW e \in sent, Ingest(w, e)
          PROVE  e \in EventRecords /\ e.key \in Cases
      BY <1>0, <2>1, ReceiveFacts DEF Ingest, IngestFailure, IngestSuccess,
                                     IngestLink, IngestReversal
    <2>2. ASSUME NEW e \in sent, IngestFailure(w, e)
          PROVE  RowStep(k)
      <3>1. e \in EventRecords /\ e.key \in Cases
        BY <2>1, <2>2 DEF Ingest
      <3>2. PICK b \in BOOLEAN :
              cases' = [ cases EXCEPT ![e.key] = HandleFailure(cases[e.key], e, b) ]
        BY <2>2 DEF IngestFailure
      <3>3. QED
        BY <1>0, <3>1, <3>2 DEF RowStep
    <2>3. ASSUME NEW e \in sent, IngestSuccess(w, e)
          PROVE  RowStep(k)
      <3> DEFINE b == HasCancellableLink(cases[e.key])
                      /\ Claimable(cancels[e.key][cases[e.key].link])
      <3>1. e \in EventRecords /\ e.key \in Cases /\ b \in BOOLEAN
        BY <2>1, <2>3 DEF Ingest
      <3>2. \/ cases' = cases
            \/ /\ cases[e.key].state # "absent" /\ ~IsFinal(cases[e.key])
               /\ cases' = [ cases EXCEPT ![e.key] = HandleSuccess(cases[e.key], e, b) ]
        BY <2>3 DEF IngestSuccess
      <3> HIDE DEF b
      <3>3. QED
        BY <1>0, <3>1, <3>2 DEF RowStep
    <2>4. ASSUME NEW e \in sent, IngestLink(w, e)
          PROVE  RowStep(k)
      <3>1. e \in EventRecords /\ e.key \in Cases
        BY <2>1, <2>4 DEF Ingest
      <3>2. \/ cases' = cases
            \/ /\ cases[e.key].state # "absent"
               /\ cases' = [ cases EXCEPT ![e.key] = HandleLink(cases[e.key], e) ]
        BY <2>4 DEF IngestLink
      <3>3. QED
        BY <1>0, <3>1, <3>2 DEF RowStep
    <2>5. ASSUME NEW e \in sent, IngestReversal(w, e)
          PROVE  RowStep(k)
      <3>1. \/ cases' = cases
            \/ /\ cases[e.key].state # "absent"
               /\ \A i \in Cases : cases'[i] \in
                    { IF i = e.key THEN HandleReversal(cases[i]) ELSE cases[i],
                      IF i = e.key THEN HandleReversal(cases[i])
                      ELSE [ cases[i] EXCEPT !.optout = TRUE ] }
        BY <2>5 DEF IngestReversal
      <3>2. QED
        BY <3>1 DEF RowStep
    <2>6. ASSUME NEW i \in Cases, NEW r \in CancelRows,
                 Pick(w, i) \/ PreviewRead(w, i) \/ SweepRead(w, i, r)
          PROVE  RowStep(k)
      BY <2>6 DEF Pick, PreviewRead, SweepRead, db, RowStep
    <2>7. 0 \in CancelRows
      BY IdleParts
    <2>8. QED
      BY <1>2, <2>2, <2>3, <2>4, <2>5, <2>6, <2>7 DEF Start, Ingest
  <1>3. CASE Operator
    <2>1. PICK i \in Cases, class \in FailureClasses \cup { "none" } : Reopen(i, class)
      BY <1>3 DEF Operator
    <2>2. PICK b \in BOOLEAN :
            cases' = [ cases EXCEPT ![i] = Reopened(cases[i], class, now, b) ]
      BY <2>1 DEF Reopen
    <2>3. cases[i].state = "manual_review"
      BY <2>1 DEF Reopen
    <2>4. QED
      BY <1>0, <2>2, <2>3 DEF RowStep
  <1>4. CASE Environment \/ Crash \/ UNCHANGED vars
    <2>1. cases' = cases
      BY <1>4 DEF Environment, Decline, Authorise, Capture, PayLink, CloseLink,
                  Reverse, Tick, Crash, vars, db
    <2>2. QED
      BY <2>1 DEF RowStep
  <1>5. QED
    BY <1>1, <1>2, <1>3, <1>4 DEF Next

-----------------------------------------------------------------------------
(* What the row functions do to state and deadline *)

\* The entries of the transition table that the handlers rely on.
LEMMA TableFacts ==
  /\ \A s \in States \ FinalStates :
        /\ CanTransition(s, "recovered_natural")
        /\ CanTransition(s, "authorized_pending_capture")
  /\ CanTransition("consent_required", "manual_review")
  /\ CanTransition("consent_required", "link_sent")
  /\ \A s \in TimedStates \cup ParkedStates \cup { "consent_required" } :
        CanTransition("manual_review", s)
  BY DEF CanTransition, AllowedTransitions, States, FinalStates, TimedStates,
         ParkedStates, ReviewEdges

\* A state and a deadline that go together.
Timely(c) == c.state \in TimedStates <=> c.due # NoTime

\* _handle_failure_event leaves a closed case alone, moves along the table,
\* and sets state and deadline together or not at all.
LEMMA FailureEffect ==
  ASSUME NEW c \in CaseRecords, NEW e \in EventRecords, NEW b \in BOOLEAN
  PROVE  LET h == HandleFailure(c, e, b)
         IN /\ IsFinal(c) => h = c
            /\ c.state # "absent" => CanTransition(c.state, h.state)
            /\ \/ h.state = c.state /\ h.due = c.due
               \/ Timely(h)
  <1> DEFINE d0 == IF c.state = "absent"
                   THEN [ NewCase EXCEPT !.amount = e.amount ] ELSE c
             code == IF e.code # "none" THEN e.code ELSE d0.code
             k == ClassifyFailure(code)
             am == d0.amount \/ e.amount
             at == d0.attempts + 1
             seen == [ d0 EXCEPT !.code = code, !.class = k, !.amount = am,
                                 !.attempts = at ]
             d == Decide(seen, e.at, b)
             s == d.state
             u == d.due
             r == IF d.state \in ParkedStates THEN d.reason ELSE "none"
             out == [ seen EXCEPT !.state = s, !.due = u, !.reason = r ]
             again == [ d0 EXCEPT !.attempts = at, !.amount = am ]
             h == HandleFailure(c, e, b)
  <1>1. h = IF IsFinal(d0) THEN d0
            ELSE IF d0.state \in AlreadyActioned THEN again
            ELSE IF ~CanTransition(d0.state, s) THEN seen ELSE out
    BY DEF HandleFailure
  <1>2. /\ c.state # "absent" => d0 = c
        /\ c.state = "absent" => d0.state = "open" /\ d0.due = NoTime
        /\ d0 \in CaseRecords
    <2>1. e.amount \in BOOLEAN
      BY DEF EventRecords
    <2>2. \A x \in BOOLEAN : [ NewCase EXCEPT !.amount = x ] \in CaseRecords
            /\ [ NewCase EXCEPT !.amount = x ].state = "open"
            /\ [ NewCase EXCEPT !.amount = x ].due = NoTime
      <3>1. ASSUME NEW n \in CaseRecords, NEW x \in BOOLEAN
            PROVE  LET m == [ n EXCEPT !.amount = x ]
                   IN m \in CaseRecords /\ m.state = n.state /\ m.due = n.due
        BY DEF CaseRecords
      <3>2. NewCase \in CaseRecords /\ NewCase.state = "open" /\ NewCase.due = NoTime
        BY CaseConstants DEF NewCase
      <3>3. QED
        BY <3>1, <3>2
    <2>3. QED
      BY <2>1, <2>2
  <1>3. /\ code \in FailureCodes \cup { "none" } /\ k \in FailureClasses
        /\ am \in BOOLEAN /\ at \in Nat
    <2> HIDE DEF d0
    <2>1. d0.attempts \in Nat /\ d0.code \in FailureCodes \cup { "none" }
      BY <1>2 DEF CaseRecords
    <2>2. QED
      BY <2>1, ClassifyType DEF EventRecords
  <1> HIDE DEF d0, code, k, am, at
  <1>4. /\ seen \in CaseRecords /\ seen.state = d0.state /\ seen.due = d0.due
        /\ again.state = d0.state /\ again.due = d0.due
    <2>1. seen = SeenRow(d0, code, k, am, at) /\ again = CountedRow(d0, at, am)
      BY DEF SeenRow, CountedRow
    <2> HIDE DEF seen, again
    <2>2. /\ SeenRow(d0, code, k, am, at) \in CaseRecords
          /\ SeenRow(d0, code, k, am, at).state = d0.state
          /\ SeenRow(d0, code, k, am, at).due = d0.due
      BY <1>2, <1>3, SeenRowType
    <2>3. /\ CountedRow(d0, at, am).state = d0.state
          /\ CountedRow(d0, at, am).due = d0.due
      BY <1>2, <1>3, CountedRowType
    <2>4. QED
      BY <2>1, <2>2, <2>3
  <1> HIDE DEF seen, again
  <1>5. s \in TimedStates <=> u # NoTime
    BY <1>4, DecideType DEF EventRecords
  <1> HIDE DEF d, r
  <1>6. out.state = s /\ out.due = u
    <2> HIDE DEF s, u
    <2>1. QED BY <1>4 DEF CaseRecords
  <1> HIDE DEF s, u, out, h
  <1>7. IsFinal(c) => h = c
    BY <1>1, <1>2 DEF IsFinal, FinalStates
  <1>8. c.state # "absent" => CanTransition(c.state, h.state)
    BY <1>1, <1>2, <1>4, <1>6 DEF CanTransition
  <1>9. (h.state = c.state /\ h.due = c.due) \/ Timely(h)
    <2>1. CASE c.state # "absent"
      BY <1>1, <1>2, <1>4, <1>5, <1>6, <2>1 DEF Timely
    <2>2. CASE c.state = "absent"
      BY <1>1, <1>2, <1>4, <1>5, <1>6, <2>2 DEF Timely, TimedStates
    <2>3. QED
      BY <2>1, <2>2
  <1>10. QED
    BY <1>7, <1>8, <1>9 DEF h

\* _handle_success_event moves along the table and drops the deadline.
LEMMA SuccessEffect ==
  ASSUME NEW c \in CaseRecords, NEW e \in EventRecords, NEW b \in BOOLEAN,
         c.state # "absent", ~IsFinal(c)
  PROVE  LET h == HandleSuccess(c, e, b)
         IN CanTransition(c.state, h.state) /\ Timely(h)
  <1> DEFINE h == HandleSuccess(c, e, b)
  <1>1. c.state \in States \ FinalStates
    BY DEF CaseRecords, IsFinal
  <1>2. h.state \in { "recovered_natural", "authorized_pending_capture" }
        /\ h.due = NoTime
    BY DEF HandleSuccess, CaseRecords
  <1> HIDE DEF h
  <1>3. QED
    BY <1>1, <1>2, TableFacts DEF Timely, TimedStates, h

\* _handle_link_event moves along the table, and a closed case not at all.
LEMMA LinkEffect ==
  ASSUME NEW c \in CaseRecords, NEW e \in EventRecords
  PROVE  LET h == HandleLink(c, e)
         IN /\ CanTransition(c.state, h.state)
            /\ IsFinal(c) => h.state = c.state /\ h.contacts = c.contacts
            /\ (h.state = c.state /\ h.due = c.due) \/ Timely(h)
  <1> DEFINE h == HandleLink(c, e)
             d == LinkTarget(c, e)
             x == LinkStatusOf(e)
             marked == [ c EXCEPT !.preview = FALSE, !.lstat = x ]
             s == d.state
             r == d.reason
             moved == [ marked EXCEPT !.state = s, !.reason = r, !.due = NoTime ]
             late == [ c EXCEPT !.recon = TRUE,
                                !.reason = "late_link_event_requires_reconciliation" ]
             odd == [ marked EXCEPT !.recon = TRUE, !.reason = "unexpected_link_event" ]
  <1>1. h = IF IsFinal(c) THEN late
            ELSE IF s = "none" THEN marked
            ELSE IF CanTransition(c.state, s) THEN moved ELSE odd
    BY DEF HandleLink
  <1>2. s \notin TimedStates
    BY DEF LinkTarget, Decision, TimedStates
  <1> HIDE DEF d, x, s, r
  <1>3. /\ late.state = c.state /\ late.due = c.due /\ late.contacts = c.contacts
        /\ marked.state = c.state /\ marked.due = c.due
        /\ odd.state = c.state /\ odd.due = c.due
        /\ moved.state = s /\ moved.due = NoTime
    BY DEF CaseRecords
  <1> HIDE DEF h, late, marked, odd, moved
  <1>4. QED
    BY <1>1, <1>2, <1>3 DEF Timely, CanTransition, h

\* reopen moves along the table and sets state and deadline together.
LEMMA ReopenedEffect ==
  ASSUME NEW c \in CaseRecords, c.state = "manual_review",
         NEW class \in FailureClasses \cup { "none" }, NEW t \in Time, NEW b \in BOOLEAN
  PROVE  LET h == Reopened(c, class, t, b)
         IN CanTransition(c.state, h.state) /\ Timely(h)
  <1> DEFINE h == Reopened(c, class, t, b)
             y == IF class # "none" THEN class ELSE c.class
             r == [ c EXCEPT !.class = y, !.attempts = 0 ]
             d == Decide(r, t, b)
             s == d.state
             u == d.due
             x == IF d.state \in ParkedStates THEN d.reason ELSE "none"
  <1>1. y \in FailureClasses \cup { "none" }
    BY DEF CaseRecords
  <1>2. h = [ r EXCEPT !.state = IF CanTransition(r.state, s) THEN s ELSE r.state,
                       !.reason = x, !.due = u ]
    BY DEF Reopened
  <1> HIDE DEF y
  <1>3. r \in CaseRecords /\ r.state = "manual_review"
    BY <1>1 DEF CaseRecords
  <1> HIDE DEF r
  <1>4. /\ s \in TimedStates <=> u # NoTime
        /\ s \in TimedStates \cup ParkedStates \cup { "consent_required" }
    BY <1>3, DecideType
  <1> HIDE DEF d, s, u, x
  <1>5. CanTransition("manual_review", s)
    BY <1>4, TableFacts
  <1>6. h = [ r EXCEPT !.state = s, !.reason = x, !.due = u ]
    BY <1>2, <1>3, <1>5
  <1>7. h.state = s /\ h.due = u
    BY <1>3, <1>6 DEF CaseRecords
  <1> HIDE DEF h
  <1>8. QED
    BY <1>4, <1>5, <1>7 DEF Timely, h

-----------------------------------------------------------------------------
(* The properties of a row *)

\* A decision about to be committed carries a deadline iff it is a timed one.
CommitsTimely ==
    \A w \in Workers : job[w].pc = "commit" =>
        (job[w].to.state \in TimedStates <=> job[w].to.due # NoTime)

\* A deadline is set together with its state, kept with it, or left behind by
\* a reversal; the moves that keep the deadline change the state only from
\* one that has none.
DeadlineKept(c, d) ==
    \/ d.state = c.state /\ d.due = c.due
    \/ d.state = "recovery_reversed" /\ d.due = c.due
    \/ c.state = "consent_required" /\ d.state = "manual_review" /\ d.due = c.due
    \/ Timely(d)

\* Every step moves every case along the table, keeps a closed one closed, and
\* treats deadlines as above.
LEMMA RowEffects ==
  ASSUME TypeInv, CommitsTimely, [Next]_vars, NEW k \in Cases
  PROVE  LET c == cases[k]
             d == cases'[k]
         IN /\ c.state # "absent" => CanTransition(c.state, d.state)
            /\ IsFinal(c) => /\ d.state \in { c.state, "recovery_reversed" }
                             /\ d.link = c.link /\ d.contacts = c.contacts
            /\ DeadlineKept(c, d)
  <1> DEFINE c == cases[k]
             d == cases'[k]
             Good == /\ c.state # "absent" => CanTransition(c.state, d.state)
                     /\ IsFinal(c) => /\ d.state \in { c.state, "recovery_reversed" }
                                      /\ d.link = c.link /\ d.contacts = c.contacts
                     /\ DeadlineKept(c, d)
  <1>0. TypeOK /\ c \in CaseRecords /\ now \in Time
    BY DEF TypeInv, TypeOK
  <1> HIDE DEF c, d
  <1>1. ASSUME NEW e \in EventRecords, NEW b \in BOOLEAN, d = HandleFailure(c, e, b)
        PROVE  Good
    BY <1>0, <1>1, FailureEffect DEF DeadlineKept, CanTransition
  <1>2. ASSUME NEW e \in EventRecords, NEW b \in BOOLEAN, c.state # "absent",
               ~IsFinal(c), d = HandleSuccess(c, e, b)
        PROVE  Good
    BY <1>0, <1>2, SuccessEffect DEF DeadlineKept
  <1>3. ASSUME NEW e \in EventRecords, d = HandleLink(c, e)
        PROVE  Good
    BY <1>0, <1>3, LinkEffect, HandleLinkType DEF DeadlineKept
  <1>4. ASSUME d = HandleReversal(c)
        PROVE  Good
    <2> DEFINE s == IF CanTransition(c.state, "recovery_reversed")
                    THEN "recovery_reversed" ELSE c.state
    <2>1. d = [ c EXCEPT !.optout = TRUE, !.reversed = TRUE, !.recon = TRUE, !.state = s ]
      BY <1>4 DEF HandleReversal
    <2>2. s \in { c.state, "recovery_reversed" } /\ CanTransition(c.state, s)
      BY DEF CanTransition
    <2> HIDE DEF s
    <2>3. d.state = s /\ d.due = c.due /\ d.link = c.link /\ d.contacts = c.contacts
      BY <1>0, <2>1 DEF CaseRecords
    <2>4. QED
      BY <2>2, <2>3 DEF DeadlineKept
  <1>5. ASSUME NEW w \in Workers, job[w].pc = "commit", ~IsFinal(c),
               CanTransition(c.state, job[w].to.state), d = Committed(c, job[w].to)
        PROVE  Good
    <2> DEFINE s == job[w].to.state
               u == job[w].to.due
               r == IF job[w].to.state \in ParkedStates THEN job[w].to.reason ELSE c.reason
    <2>1. d = [ c EXCEPT !.state = s, !.due = u, !.reason = r ]
      BY <1>5 DEF Committed
    <2>2. CanTransition(c.state, s) /\ (s \in TimedStates <=> u # NoTime)
      BY <1>5 DEF CommitsTimely
    <2> HIDE DEF s, u, r
    <2>3. d.state = s /\ d.due = u
      BY <1>0, <2>1 DEF CaseRecords
    <2>4. QED
      BY <1>5, <2>2, <2>3 DEF DeadlineKept, Timely
  <1>6. ASSUME NEW x \in Reasons, c.state = "consent_required",
               d = [ c EXCEPT !.state = "manual_review", !.reason = x ]
        PROVE  Good
    <2>1. d.state = "manual_review" /\ d.due = c.due
      BY <1>0, <1>6 DEF CaseRecords
    <2>2. QED
      BY <1>6, <2>1, TableFacts DEF DeadlineKept, IsFinal, FinalStates
  <1>7. ASSUME NEW w \in Workers, c.state = "consent_required",
               d = LinkSent(c, job[w].link, job[w].at)
        PROVE  Good
    <2>1. \A n, t : LinkSent(c, n, t).state = "link_sent" /\ LinkSent(c, n, t).due = NoTime
      BY <1>0 DEF LinkSent, RecordContact, CaseRecords
    <2>2. QED
      BY <1>7, <2>1, TableFacts DEF DeadlineKept, Timely, TimedStates, IsFinal, FinalStates
  <1>8. ASSUME \/ d = c
               \/ \E s \in LinkStatuses : d = CancelRecorded(c, s)
               \/ d = [ c EXCEPT !.optout = TRUE ]
               \/ d = [ c EXCEPT !.recon = TRUE, !.reason = "payment_link_cancel_failed" ]
               \/ d = [ c EXCEPT !.preview = TRUE ]
        PROVE  Good
    <2> DEFINE Alike(x) == /\ x.state = c.state /\ x.due = c.due
                           /\ x.link = c.link /\ x.contacts = c.contacts
               R(s) == CancelRecorded(c, s)
               O == [ c EXCEPT !.optout = TRUE ]
               F == [ c EXCEPT !.recon = TRUE, !.reason = "payment_link_cancel_failed" ]
               P == [ c EXCEPT !.preview = TRUE ]
    <2>1. ASSUME NEW s PROVE Alike(R(s))
      BY <1>0 DEF CancelRecorded, CaseRecords
    <2>2. Alike(O) /\ Alike(F) /\ Alike(P)
      BY <1>0 DEF CaseRecords
    <2>3. d = c \/ (\E s : d = R(s)) \/ d = O \/ d = F \/ d = P
      BY <1>8
    <2> HIDE DEF R, O, F, P
    <2>4. Alike(d)
      BY <2>1, <2>2, <2>3
    <2>5. QED
      BY <2>4 DEF DeadlineKept, CanTransition
  <1>9. ASSUME NEW class \in FailureClasses \cup { "none" }, NEW b \in BOOLEAN,
               c.state = "manual_review", d = Reopened(c, class, now, b)
        PROVE  Good
    BY <1>0, <1>9, ReopenedEffect DEF DeadlineKept, IsFinal, FinalStates
  <1>10. RowStep(k)
    BY RowSteps
  <1> HIDE DEF Good
  <1>11. Good
    BY <1>1, <1>2, <1>3, <1>4, <1>5, <1>6, <1>7, <1>8, <1>9, <1>10 DEF RowStep, c, d
  <1>12. QED
    BY <1>11 DEF Good, c, d

\* Only what was considered is committed, and it is considered timely.
LEMMA NextCommits == TypeInv /\ CommitsTimely /\ [Next]_vars => CommitsTimely'
  <1> SUFFICES ASSUME TypeInv, CommitsTimely, [Next]_vars PROVE CommitsTimely'
    OBVIOUS
  <1>0. TypeOK /\ job \in [ Workers -> Jobs ]
    BY DEF TypeInv, TypeOK
  <1>1. ASSUME NEW w \in Workers, Consider(w)
        PROVE  job'[w].pc = "commit" =>
                 (job'[w].to.state \in TimedStates <=> job'[w].to.due # NoTime)
    <2> DEFINE j == job[w]
               blocked == MayContact(j.key, j.snap, j.at)
               P(d) == [ IdleJob EXCEPT !.pc = "commit", !.key = j.key,
                           !.stale = j.stale, !.at = j.at, !.to = d ]
               C == [ IdleJob EXCEPT !.pc = "claim", !.key = j.key, !.at = j.at,
                                     !.amount = j.snap.amount ]
               D == CooldownOutcomes(j.at) \cup { RetryOutcome(j.snap, blocked) }
                    \cup (IF blocked # "none" THEN { Refusal(blocked) } ELSE {})
    <2>1. (\A d : P(d).to = d) /\ C.pc = "claim"
      BY DEF IdleJob
    <2>2. \A d \in D : d.state \in TimedStates <=> d.due # NoTime
      <3>1. j.snap \in CaseRecords /\ j.at \in Time
        BY <1>0, JobFacts
      <3>2. QED
        BY <3>1, OutcomeType
    <2> HIDE DEF blocked
    <2>3. (\E d \in D : job' = [ job EXCEPT ![w] = P(d) ]) \/ job' = [ job EXCEPT ![w] = C ]
      BY <1>1 DEF Consider, blocked
    <2> HIDE DEF P, C, D
    <2>4. (\E d \in D : job'[w] = P(d)) \/ job'[w] = C
      BY <1>0, <2>3
    <2>5. QED
      BY <2>1, <2>2, <2>4
  <1>2. ASSUME NEW w \in Workers, Work(w), ~Consider(w)
        PROVE  job'[w].pc # "commit"
    <2> DEFINE j == job[w]
    <2>1. IdleJob.pc = "idle" /\ \A k, r, n : CancelJob(k, r, n).pc = "cancel"
      BY DEF IdleJob, CancelJob
    <2>2. \A S : Saved(S) \in [ Workers -> Jobs ]
      BY <1>0, SavedFacts
    <2>3. CASE ClaimCreate(w) \/ ProviderCreates(w) \/ ProviderRefuses(w) \/ CancelCall(w)
      BY <1>0, <2>1, <2>3 DEF ClaimCreate, ProviderCreates, ProviderRefuses,
                              CancelCall, Jobs
    <2>4. CASE Commit(w) \/ RecordUncreated(w) \/ Supersede(w) \/ RecordCancelled(w)
               \/ RecordUncancelled(w) \/ PreviewSave(w) \/ Sweep(w)
      <3>1. \/ job' = [ job EXCEPT ![w] = IdleJob ]
            \/ job' = [ Saved({ j.key }) EXCEPT ![w] = IdleJob ]
            \/ job' = [ job EXCEPT ![w] = CancelJob(j.key, j.row, j.link) ]
        BY <2>4 DEF Commit, RecordUncreated, Supersede, RecordCancelled,
                    RecordUncancelled, PreviewSave, Sweep
      <3>2. QED
        BY <1>0, <2>1, <2>2, <3>1
    <2>5. CASE RecordCreated(w)
      <3>1. \/ job' = [ job EXCEPT ![w].pc = "supersede" ]
            \/ job' = [ Saved({ j.key }) EXCEPT ![w] = IdleJob ]
        BY <2>5 DEF RecordCreated
      <3>2. QED
        BY <1>0, <2>1, <2>2, <3>1 DEF Jobs
    <2>6. QED
      BY <1>2, <2>3, <2>4, <2>5 DEF Work
  <1>3. ASSUME NEW w \in Workers, Work(w) \/ Start(w)
        PROVE  CommitsTimely'
    <2>1. job'[w].pc = "commit" =>
            (job'[w].to.state \in TimedStates <=> job'[w].to.due # NoTime)
      BY <1>1, <1>2, <1>3, StartsIdle
    <2>2. \A v \in Workers \ { w } : job'[v].pc = job[v].pc /\ job'[v].to = job[v].to
      BY <1>3, OtherWorkers
    <2>3. QED
      BY <2>1, <2>2 DEF CommitsTimely
  <1>4. CASE Operator
    <2>1. \E S : job' = Saved(S)
      BY <1>4 DEF Operator, Reopen
    <2>2. QED
      BY <1>0, <2>1, SavedFacts DEF CommitsTimely
  <1>5. CASE Environment \/ UNCHANGED vars
    <2>1. job' = job
      BY <1>5 DEF Environment, Decline, Authorise, Capture, PayLink, CloseLink,
                  Reverse, Tick, vars
    <2>2. QED
      BY <2>1 DEF CommitsTimely
  <1>6. CASE Crash
    <2>1. \A w \in Workers : job'[w].pc = "idle"
      BY <1>6, IdleJobOK DEF Crash
    <2>2. QED
      BY <2>1 DEF CommitsTimely
  <1>7. QED
    BY <1>3, <1>4, <1>5, <1>6 DEF Next

\* What is about to be committed is timely in every reachable state.
LEMMA CommitsInvariant == Spec => []CommitsTimely
  <1>1. Init => CommitsTimely
    BY IdleJobOK DEF Init, CommitsTimely
  <1>2. QED
    BY <1>1, NextCommits, TypeInvariant, PTL DEF Spec

\* A case waits on a timer iff it has a deadline, whatever the interleaving of
\* ticks, webhooks and operators: no case is parked where no tick looks.
THEOREM Deadlines == Spec => []TimedCasesHaveDeadlines
  <1>1. Init => TimedCasesHaveDeadlines
    BY DEF Init, TimedCasesHaveDeadlines, AbsentCase, NewCase, TimedStates
  <1>2. TypeInv /\ CommitsTimely /\ TimedCasesHaveDeadlines /\ [Next]_vars
          => TimedCasesHaveDeadlines'
    <2> SUFFICES ASSUME TypeInv, CommitsTimely, TimedCasesHaveDeadlines, [Next]_vars
                 PROVE  TimedCasesHaveDeadlines'
      OBVIOUS
    <2>1. \A k \in Cases : DeadlineKept(cases[k], cases'[k])
      BY RowEffects
    <2>2. QED
      BY <2>1 DEF TimedCasesHaveDeadlines, DeadlineKept, Timely, TimedStates
  <1>3. QED
    BY <1>1, <1>2, TypeInvariant, CommitsInvariant, PTL DEF Spec

\* transition_to never raises: every change of state is an edge of the table.
THEOREM Transitions == Spec => TransitionsAllowed
  <1>1. TypeInv /\ CommitsTimely /\ [Next]_vars =>
          [\A k \in Cases : cases[k].state # "absent" =>
              CanTransition(cases[k].state, cases[k].state')]_vars
    BY RowEffects
  <1>2. QED
    BY <1>1, TypeInvariant, CommitsInvariant, PTL DEF Spec, TransitionsAllowed

\* A closed case is only ever reversed: no late thread reopens it, publishes a
\* link for it or spends a contact on it.
THEOREM Closed == Spec => ClosedStaysClosed
  <1>1. TypeInv /\ CommitsTimely /\ [Next]_vars =>
          [\A k \in Cases : IsFinal(cases[k]) =>
              /\ cases'[k].state \in { cases[k].state, "recovery_reversed" }
              /\ cases'[k].link = cases[k].link
              /\ cases'[k].contacts = cases[k].contacts]_vars
    BY RowEffects
  <1>2. QED
    BY <1>1, TypeInvariant, CommitsInvariant, PTL DEF Spec, ClosedStaysClosed

-----------------------------------------------------------------------------
(* Sums over a finite set *)

\* Induction over the naturals, for a set of them.
LEMMA Induct ==
  ASSUME NEW T, 0 \in T, \A n \in Nat : n \in T => n + 1 \in T
  PROVE  \A n \in Nat : n \in T
  <1> DEFINE U == Nat \ T
             R == { ss \in Nat \X Nat : ss[1] < ss[2] }
  <1>0. IsWellFoundedOn(R, Nat)
    BY NatLessThanWellFounded DEF OpToRel
  <1>1. ASSUME U # {} PROVE FALSE
    <2>1. PICK x \in U : \A y \in U : ~ (<<y, x>> \in R)
      <3> HIDE DEF R
      <3>1. QED
        BY <1>1, <1>0, WFMin
    <2>2. x \in Nat /\ x # 0 /\ x - 1 \in Nat /\ x - 1 < x
      OBVIOUS
    <2>3. x - 1 \in T
      BY <2>1, <2>2
    <2>4. QED
      BY <2>2, <2>3
  <1>2. QED
    BY <1>1

\* The sum over s of the contacts of the rows of g, one element at a time;
\* sum gives the sums of the smaller sets.
Added(g, sum, s) ==
    IF s = {} THEN 0
    ELSE LET x == CHOOSE x \in s : TRUE IN g[x].contacts + sum[s \ { x }]

\* The rest of a finite nonempty set is smaller by one.
LEMMA RestOf ==
  ASSUME NEW s, IsFiniteSet(s), s # {}
  PROVE  LET x == CHOOSE x \in s : TRUE
         IN /\ x \in s /\ IsFiniteSet(s \ { x })
            /\ Cardinality(s) \in Nat \ { 0 }
            /\ Cardinality(s \ { x }) = Cardinality(s) - 1
  <1> DEFINE x == CHOOSE x \in s : TRUE
  <1>1. x \in s
    OBVIOUS
  <1> HIDE DEF x
  <1>2. /\ IsFiniteSet(s \ { x }) /\ Cardinality(s \ { x }) = Cardinality(s) - 1
    BY <1>1, FS_RemoveElement
  <1>3. Cardinality(s) \in Nat /\ Cardinality(s) # 0
    BY FS_CardinalityType, FS_EmptySet
  <1>4. QED
    BY <1>1, <1>2, <1>3 DEF x

\* A function that sums every subset of a finite set exists.
LEMMA SumExists ==
  ASSUME NEW g, NEW S, IsFiniteSet(S)
  PROVE  \E sum : sum = [ s \in SUBSET S |-> Added(g, sum, s) ]
  <1> DEFINE UpTo(n, sum) == \A s \in SUBSET S :
                Cardinality(s) <= n => sum[s] = Added(g, sum, s)
             T == { n \in Nat : \E sum : UpTo(n, sum) }
  <1>0. \A s \in SUBSET S : IsFiniteSet(s) /\ Cardinality(s) \in Nat
                            /\ Cardinality(s) <= Cardinality(S)
    BY FS_Subset, FS_CardinalityType
  <1>1. 0 \in T
    <2> DEFINE sum == [ s \in SUBSET S |-> 0 ]
    <2>1. \A s \in SUBSET S : Cardinality(s) <= 0 => s = {}
      BY <1>0, FS_EmptySet
    <2>2. UpTo(0, sum)
      BY <2>1 DEF Added
    <2>3. QED
      BY <2>2
  <1>2. ASSUME NEW n \in Nat, n \in T PROVE n + 1 \in T
    <2>1. PICK sum : UpTo(n, sum)
      BY <1>2
    <2> DEFINE more == [ s \in SUBSET S |->
                  IF Cardinality(s) <= n THEN sum[s] ELSE Added(g, sum, s) ]
    <2>2. ASSUME NEW s \in SUBSET S, Cardinality(s) <= n + 1
          PROVE  more[s] = Added(g, sum, s)
      BY <2>1, <2>2
    <2>3. ASSUME NEW s \in SUBSET S, Cardinality(s) <= n + 1
          PROVE  Added(g, sum, s) = Added(g, more, s)
      <3>1. CASE s = {}
        BY <3>1 DEF Added
      <3>2. CASE s # {}
        <4> DEFINE x == CHOOSE x \in s : TRUE
        <4>1. Cardinality(s \ { x }) = Cardinality(s) - 1 /\ Cardinality(s) \in Nat
          BY <1>0, <3>2, RestOf
        <4> HIDE DEF x
        <4>2. Cardinality(s \ { x }) <= n /\ s \ { x } \in SUBSET S
          BY <2>3, <4>1
        <4>3. more[s \ { x }] = sum[s \ { x }]
          BY <4>2
        <4> HIDE DEF more
        <4>4. QED
          BY <3>2, <4>3 DEF Added, x
      <3>3. QED
        BY <3>1, <3>2
    <2> HIDE DEF more
    <2>4. UpTo(n + 1, more)
      BY <2>2, <2>3
    <2>5. QED
      BY <2>4
  <1>3. PICK sum : UpTo(Cardinality(S), sum)
    <2>1. Cardinality(S) \in Nat
      BY FS_CardinalityType
    <2> HIDE DEF UpTo
    <2>2. \A n \in Nat : n \in T
      <3> HIDE DEF T
      <3>1. QED BY <1>1, <1>2, Induct
    <2>3. QED
      BY <2>1, <2>2
  <1> DEFINE all == [ s \in SUBSET S |-> sum[s] ]
  <1>4. ASSUME NEW s \in SUBSET S
        PROVE  all[s] = Added(g, all, s)
    <2>1. all[s] = Added(g, sum, s)
      BY <1>0, <1>3
    <2>2. CASE s = {}
      BY <2>1, <2>2 DEF Added
    <2>3. CASE s # {}
      <3> DEFINE x == CHOOSE x \in s : TRUE
      <3>1. s \ { x } \in SUBSET S
        OBVIOUS
      <3>2. all[s \ { x }] = sum[s \ { x }]
        BY <3>1
      <3> HIDE DEF all, x
      <3>3. QED
        BY <2>1, <2>3, <3>2 DEF Added, x
    <2>4. QED
      BY <2>2, <2>3
  <1>5. all = [ s \in SUBSET S |-> Added(g, all, s) ]
    <2>1. all = [ s \in SUBSET S |-> all[s] ]
      OBVIOUS
    <2> HIDE DEF all
    <2>2. QED
      BY <1>4, <2>1
  <1>6. QED
    BY <1>5

\* What MapThenSumSet computes: the sum over the whole of S.
Total(g, S) == (CHOOSE sum : sum = [ s \in SUBSET S |-> Added(g, sum, s) ])[S]

\* customer_contact_state adds up the contacts of the siblings.
LEMMA SiblingTotal ==
  ASSUME NEW k
  PROVE  SiblingContacts(k) = Total(cases, Siblings(k))
  BY DEF SiblingContacts, MapThenSumSet, MapThenFoldSet, Total, Added

\* The sum of the contacts of finitely many rows is a number, and at least
\* the number of rows that were contacted at all.
LEMMA SumBounds ==
  ASSUME NEW g, NEW S, IsFiniteSet(S), \A j \in S : g[j].contacts \in Nat
  PROVE  /\ Total(g, S) \in Nat
         /\ Cardinality({ j \in S : g[j].contacts >= 1 }) <= Total(g, S)
  <1> DEFINE sum == CHOOSE h : h = [ s \in SUBSET S |-> Added(g, h, s) ]
             Met(s) == { j \in s : g[j].contacts >= 1 }
             Fine(s) == sum[s] \in Nat /\ Cardinality(Met(s)) <= sum[s]
             T == { n \in Nat : \A s \in SUBSET S : Cardinality(s) = n => Fine(s) }
  <1>1. Total(g, S) = sum[S]
    BY DEF Total
  <1>2. sum = [ s \in SUBSET S |-> Added(g, sum, s) ]
    BY SumExists
  <1> HIDE DEF sum
  <1>3. \A s \in SUBSET S : sum[s] = Added(g, sum, s)
    BY <1>2
  <1>0. \A s \in SUBSET S : IsFiniteSet(s) /\ Cardinality(s) \in Nat
    BY FS_Subset, FS_CardinalityType
  <1>4. 0 \in T
    <2>1. \A s \in SUBSET S : Cardinality(s) = 0 => s = {}
      BY <1>0, FS_EmptySet
    <2>2. Fine({})
      <3>1. sum[{}] = 0
        BY <1>3 DEF Added
      <3>2. Met({}) = {}
        OBVIOUS
      <3>3. QED
        BY <3>1, <3>2, FS_EmptySet
    <2> HIDE DEF Fine
    <2>3. QED
      BY <2>1, <2>2
  <1>5. ASSUME NEW n \in Nat, n \in T PROVE n + 1 \in T
    <2>1. ASSUME NEW s \in SUBSET S, Cardinality(s) = n + 1 PROVE Fine(s)
      <3> DEFINE x == CHOOSE x \in s : TRUE
                 r == s \ { x }
      <3>1. s # {}
        BY <2>1, FS_EmptySet
      <3>2. x \in s /\ Cardinality(r) = Cardinality(s) - 1
        BY <1>0, <3>1, RestOf
      <3>3. sum[s] = g[x].contacts + sum[r]
        BY <1>3, <3>1 DEF Added
      <3> HIDE DEF x
      <3>4. r \in SUBSET S /\ Cardinality(r) = n
        BY <2>1, <3>2
      <3>5. Fine(r)
        BY <1>5, <3>4
      <3>6. g[x].contacts \in Nat /\ sum[s] \in Nat /\ sum[r] \in Nat
        BY <3>2, <3>3, <3>5
      <3>7. IsFiniteSet(Met(r)) /\ Cardinality(Met(r)) \in Nat
        <4>1. Met(r) \in SUBSET S
          OBVIOUS
        <4>2. QED
          BY <1>0, <4>1
      <3>8. CASE g[x].contacts = 0
        <4>1. Met(s) = Met(r)
          BY <3>2, <3>8
        <4> HIDE DEF r, Met
        <4>2. QED
          BY <3>3, <3>5, <3>6, <3>8, <4>1
      <3>9. CASE g[x].contacts >= 1
        <4>1. Met(s) = Met(r) \cup { x }
          BY <3>2, <3>9
        <4>2. Cardinality(Met(s)) <= Cardinality(Met(r)) + 1 /\ Cardinality(Met(s)) \in Nat
          <5>1. ASSUME NEW m, IsFiniteSet(m), Cardinality(m) \in Nat
                PROVE  Cardinality(m \cup { x }) \in { Cardinality(m), Cardinality(m) + 1 }
            BY <5>1, FS_AddElement
          <5> HIDE DEF r, Met
          <5>2. Cardinality(Met(s)) \in { Cardinality(Met(r)), Cardinality(Met(r)) + 1 }
            BY <3>7, <4>1, <5>1
          <5>3. QED BY <3>7, <5>2
        <4> HIDE DEF r, Met
        <4>3. QED
          BY <3>3, <3>5, <3>6, <3>7, <3>9, <4>2
      <3>10. QED
        BY <3>6, <3>8, <3>9
    <2> HIDE DEF Fine
    <2>2. QED
      BY <2>1
  <1>6. Fine(S)
    <2>1. \A n \in Nat : n \in T
      <3> HIDE DEF T
      <3>1. QED BY <1>4, <1>5, Induct
    <2> HIDE DEF Fine
    <2>2. QED
      BY <1>0, <2>1
  <1>7. QED
    BY <1>1, <1>6


-----------------------------------------------------------------------------
(* Contacts of a row *)

\* The row's contacts are what they were.
SameContacts(c, d) == d.last = c.last /\ d.contacts = c.contacts

\* No update of a row but record_contact touches its contacts.
LEMMA ContactFields ==
  ASSUME NEW g \in CaseRecords
  PROVE  /\ \A n, b : SameContacts(g, CountedRow(g, n, b))
         /\ \A f, k, b, n : SameContacts(g, SeenRow(g, f, k, b, n))
         /\ \A s, u, r : SameContacts(g, DecidedRow(g, s, u, r))
         /\ \A b, x : SameContacts(g, MarkedRow(g, b, x))
  <1>1. ASSUME NEW n, NEW b PROVE SameContacts(g, CountedRow(g, n, b))
    BY DEF CountedRow, CaseRecords, SameContacts
  <1>2. ASSUME NEW f, NEW k, NEW b, NEW n PROVE SameContacts(g, SeenRow(g, f, k, b, n))
    BY DEF SeenRow, CaseRecords, SameContacts
  <1>3. ASSUME NEW s, NEW u, NEW r PROVE SameContacts(g, DecidedRow(g, s, u, r))
    BY DEF DecidedRow, CaseRecords, SameContacts
  <1>4. ASSUME NEW b, NEW x PROVE SameContacts(g, MarkedRow(g, b, x))
    BY DEF MarkedRow, CaseRecords, SameContacts
  <1>5. QED
    BY <1>1, <1>2, <1>3, <1>4

\* A failure spends no contact, and a new case has none.
LEMMA FailureContacts ==
  ASSUME NEW c \in CaseRecords, NEW e \in EventRecords, NEW b \in BOOLEAN
  PROVE  LET h == HandleFailure(c, e, b)
         IN /\ c.state # "absent" => SameContacts(c, h)
            /\ c.state = "absent" => h.last = NoTime
  <1> DEFINE d0 == FoundRow(c, e)
             code == IF e.code # "none" THEN e.code ELSE d0.code
             k == ClassifyFailure(code)
             am == d0.amount \/ e.amount
             n == d0.attempts + 1
             again == CountedRow(d0, n, am)
             seen == SeenRow(d0, code, k, am, n)
             d == Decide(seen, e.at, b)
             r == IF d.state \in ParkedStates THEN d.reason ELSE "none"
             out == DecidedRow(seen, d.state, d.due, r)
             h == HandleFailure(c, e, b)
  <1>0. EventOK(e)
    BY EventsAreOK
  <1>1. /\ d0 \in CaseRecords
        /\ c.state # "absent" => d0 = c
        /\ c.state = "absent" => d0.last = NoTime
    <2>1. d0 \in CaseRecords /\ (c.state # "absent" => d0 = c)
      BY <1>0, FoundRowType
    <2>2. c.state = "absent" => d0.last = NoTime
      BY DEF FoundRow, NewCase
    <2>3. QED
      BY <2>1, <2>2
  <1>2. h = IF IsFinal(d0) THEN d0
            ELSE IF d0.state \in AlreadyActioned THEN again
            ELSE IF ~CanTransition(d0.state, d.state) THEN seen ELSE out
    BY DEF HandleFailure, FoundRow, CountedRow, SeenRow, DecidedRow
  <1>3. seen \in CaseRecords
    <2>1. /\ code \in FailureCodes \cup { "none" } /\ k \in FailureClasses
          /\ am \in BOOLEAN /\ n \in Nat
      <3> HIDE DEF d0
      <3>1. d0.attempts \in Nat /\ d0.code \in FailureCodes \cup { "none" }
            /\ d0.amount \in BOOLEAN
        BY <1>1 DEF CaseRecords
      <3>2. QED
        BY <1>0, <3>1, ClassifyType DEF EventOK
    <2> HIDE DEF d0, code, k, am, n
    <2>2. QED
      BY <1>1, <2>1, SeenRowType
  <1> HIDE DEF d0, code, k, am, n, d, r
  <1>4. SameContacts(d0, again) /\ SameContacts(d0, seen)
    BY <1>1, ContactFields
  <1>5. SameContacts(seen, out)
    BY <1>3, ContactFields
  <1> HIDE DEF again, seen, out
  <1>6. SameContacts(d0, h)
    BY <1>2, <1>4, <1>5 DEF SameContacts
  <1> HIDE DEF h
  <1>7. QED
    BY <1>1, <1>6 DEF SameContacts, h

\* Neither does a success, a link event, a reversal, a cancel or a reopen.
LEMMA OtherContacts ==
  ASSUME NEW c \in CaseRecords
  PROVE  /\ \A e, b : SameContacts(c, HandleSuccess(c, e, b))
         /\ \A e : SameContacts(c, HandleLink(c, e))
         /\ SameContacts(c, HandleReversal(c))
         /\ \A d : SameContacts(c, Committed(c, d))
         /\ \A s : SameContacts(c, CancelRecorded(c, s))
         /\ \A x : SameContacts(c, [ c EXCEPT !.state = "manual_review", !.reason = x ])
         /\ SameContacts(c, [ c EXCEPT !.optout = TRUE ])
         /\ SameContacts(c, [ c EXCEPT !.recon = TRUE,
                                       !.reason = "payment_link_cancel_failed" ])
         /\ SameContacts(c, [ c EXCEPT !.preview = TRUE ])
         /\ \A x, t, b : SameContacts(c, Reopened(c, x, t, b))
  <1> SUFFICES \A e, b, d, x, t :
         /\ SameContacts(c, HandleSuccess(c, e, b))
         /\ SameContacts(c, HandleLink(c, e))
         /\ SameContacts(c, HandleReversal(c))
         /\ SameContacts(c, Committed(c, d))
         /\ SameContacts(c, CancelRecorded(c, x))
         /\ SameContacts(c, [ c EXCEPT !.state = "manual_review", !.reason = x ])
         /\ SameContacts(c, [ c EXCEPT !.optout = TRUE ])
         /\ SameContacts(c, [ c EXCEPT !.recon = TRUE,
                                       !.reason = "payment_link_cancel_failed" ])
         /\ SameContacts(c, [ c EXCEPT !.preview = TRUE ])
         /\ SameContacts(c, Reopened(c, x, t, b))
    OBVIOUS
  <1> TAKE e, b, d, x, t
  <1>1. SameContacts(c, HandleSuccess(c, e, b))
    BY DEF HandleSuccess, CaseRecords, SameContacts
  <1>2. SameContacts(c, HandleLink(c, e))
    <2> DEFINE marked == MarkedRow(c, FALSE, LinkStatusOf(e))
               late == [ c EXCEPT !.recon = TRUE,
                                  !.reason = "late_link_event_requires_reconciliation" ]
               Moved(s, r) == [ marked EXCEPT !.state = s, !.reason = r, !.due = NoTime ]
               odd == [ marked EXCEPT !.recon = TRUE, !.reason = "unexpected_link_event" ]
    <2>1. SameContacts(c, late)
      BY DEF CaseRecords, SameContacts
    <2>2. SameContacts(c, marked)
      BY ContactFields
    <2>3. SameContacts(marked, odd) /\ \A s, r : SameContacts(marked, Moved(s, r))
      BY DEF MarkedRow, CaseRecords, SameContacts
    <2>4. \/ HandleLink(c, e) = late \/ HandleLink(c, e) = odd
          \/ HandleLink(c, e) = marked \/ \E s, r : HandleLink(c, e) = Moved(s, r)
      BY DEF HandleLink, MarkedRow
    <2> HIDE DEF late, marked, odd, Moved
    <2>5. QED
      BY <2>1, <2>2, <2>3, <2>4 DEF SameContacts
  <1>3. SameContacts(c, HandleReversal(c)) /\ SameContacts(c, Committed(c, d))
    BY DEF HandleReversal, Committed, CaseRecords, SameContacts
  <1>4. SameContacts(c, CancelRecorded(c, x))
    BY DEF CancelRecorded, CaseRecords, SameContacts
  <1>5. SameContacts(c, Reopened(c, x, t, b))
    <2> DEFINE Row(y, s, r, u) == [ [ c EXCEPT !.class = y, !.attempts = 0 ]
                                    EXCEPT !.state = s, !.reason = r, !.due = u ]
    <2>1. ASSUME NEW y, NEW s, NEW r, NEW u PROVE SameContacts(c, Row(y, s, r, u))
      BY DEF CaseRecords, SameContacts
    <2>2. \E y, s, r, u : Reopened(c, x, t, b) = Row(y, s, r, u)
      BY DEF Reopened
    <2> HIDE DEF Row
    <2>3. QED
      BY <2>1, <2>2
  <1>6. /\ SameContacts(c, [ c EXCEPT !.state = "manual_review", !.reason = x ])
        /\ SameContacts(c, [ c EXCEPT !.optout = TRUE ])
        /\ SameContacts(c, [ c EXCEPT !.recon = TRUE,
                                      !.reason = "payment_link_cancel_failed" ])
        /\ SameContacts(c, [ c EXCEPT !.preview = TRUE ])
    BY DEF CaseRecords, SameContacts
  <1>7. QED
    BY <1>1, <1>2, <1>3, <1>4, <1>5, <1>6


\* The table leads to no absent case.
LEMMA NeverAbsentAgain ==
  ASSUME NEW c \in CaseRecords, c.state # "absent", NEW s, CanTransition(c.state, s)
  PROVE  s # "absent"
  <1>1. \A x \in States : "absent" \notin AllowedTransitions[x]
    BY DEF AllowedTransitions, States, ReviewEdges
  <1>2. c.state \in States
    BY DEF CaseRecords
  <1>3. QED
    BY <1>1, <1>2 DEF CanTransition

\* Worker w publishes the link it has created for case k.
Publishes(w, k) ==
    /\ job[w].pc = "created" /\ job[w].key = k /\ job'[w].pc = "idle"
    /\ cases[k].state # "absent"
    /\ cases'[k].last = job[w].at /\ cases'[k].contacts >= 1

\* A step leaves the contacts of a row alone, or makes the row of a new case,
\* or publishes its link.
LEMMA RowContacts ==
  ASSUME TypeInv, CommitsTimely, [Next]_vars, NEW k \in Cases
  PROVE  /\ cases[k].state # "absent" => cases'[k].state # "absent"
         /\ \/ SameContacts(cases[k], cases'[k])
            \/ cases[k].state = "absent" /\ cases'[k].last = NoTime
            \/ \E w \in Workers : Publishes(w, k)
  <1> DEFINE c == cases[k]
             d == cases'[k]
             Good == \/ SameContacts(c, d)
                     \/ c.state = "absent" /\ d.last = NoTime
                     \/ \E w \in Workers : Publishes(w, k)
  <1>0. c \in CaseRecords
    BY DEF TypeInv, TypeOK
  <1>1. c.state # "absent" => d.state # "absent"
    BY <1>0, RowEffects, NeverAbsentAgain
  <1>2. RowStep(k)
    BY RowSteps
  <1>3. ASSUME NEW w \in Workers, job[w].pc = "created", job[w].key = k,
               job'[w].pc = "idle", c.state = "consent_required",
               d = LinkSent(c, job[w].link, job[w].at)
        PROVE  Publishes(w, k)
    <2>1. EffectiveContacts(c, job[w].at) \in Nat
      BY <1>0 DEF EffectiveContacts, CaseRecords
    <2>2. \A n, t, x : LET r == [ [ c EXCEPT !.contacts = x, !.last = t ]
                                  EXCEPT !.link = n, !.lstat = "issued",
                                         !.state = "link_sent", !.due = NoTime ]
                       IN r.last = t /\ r.contacts = x
      BY <1>0 DEF CaseRecords
    <2>3. d.last = job[w].at /\ d.contacts = EffectiveContacts(c, job[w].at) + 1
      BY <1>3, <2>2 DEF LinkSent, RecordContact
    <2>4. QED
      BY <1>3, <2>1, <2>3 DEF Publishes
  <1> HIDE DEF c, d
  <1>4. ASSUME NEW e \in EventRecords, NEW b \in BOOLEAN, d = HandleFailure(c, e, b)
        PROVE  Good
    BY <1>0, <1>4, FailureContacts
  <1>5. ASSUME \/ d = c
               \/ \E e \in EventRecords, b \in BOOLEAN : d = HandleSuccess(c, e, b)
               \/ \E e \in EventRecords : d = HandleLink(c, e)
               \/ d = HandleReversal(c)
               \/ d = [ c EXCEPT !.optout = TRUE ]
               \/ \E w \in Workers : d = Committed(c, job[w].to)
               \/ \E x \in Reasons : d = [ c EXCEPT !.state = "manual_review", !.reason = x ]
               \/ \E s \in LinkStatuses : d = CancelRecorded(c, s)
               \/ d = [ c EXCEPT !.recon = TRUE, !.reason = "payment_link_cancel_failed" ]
               \/ d = [ c EXCEPT !.preview = TRUE ]
               \/ \E class \in FailureClasses \cup { "none" }, b \in BOOLEAN :
                     d = Reopened(c, class, now, b)
        PROVE  SameContacts(c, d)
    <2>1. CASE d = c
      BY <2>1 DEF SameContacts
    <2> DEFINE M(x) == [ c EXCEPT !.state = "manual_review", !.reason = x ]
               O == [ c EXCEPT !.optout = TRUE ]
               F == [ c EXCEPT !.recon = TRUE, !.reason = "payment_link_cancel_failed" ]
               P == [ c EXCEPT !.preview = TRUE ]
    <2>2. CASE d = O \/ d = F \/ d = P \/ \E x : d = M(x)
      <3>1. SameContacts(c, O) /\ SameContacts(c, F) /\ SameContacts(c, P)
            /\ \A x : SameContacts(c, M(x))
        BY <1>0, OtherContacts
      <3> HIDE DEF O, F, P, M
      <3>2. QED
        BY <2>2, <3>1
    <2> HIDE DEF O, F, P, M
    <2>3. CASE \/ \E e, b : d = HandleSuccess(c, e, b)
               \/ \E e : d = HandleLink(c, e)
               \/ d = HandleReversal(c)
               \/ \E x : d = Committed(c, x)
               \/ \E x : d = CancelRecorded(c, x)
               \/ \E x, b : d = Reopened(c, x, now, b)
      <3>1. /\ \A e, b : SameContacts(c, HandleSuccess(c, e, b))
            /\ \A e : SameContacts(c, HandleLink(c, e))
            /\ SameContacts(c, HandleReversal(c))
            /\ \A x : SameContacts(c, Committed(c, x))
            /\ \A s : SameContacts(c, CancelRecorded(c, s))
            /\ \A x, t, b : SameContacts(c, Reopened(c, x, t, b))
        BY <1>0, OtherContacts
      <3>2. QED
        BY <2>3, <3>1
    <2>4. QED
      BY <1>5, <2>1, <2>2, <2>3 DEF O, F, P, M
  <1> HIDE DEF Good
  <1>6. Good
    BY <1>2, <1>3, <1>4, <1>5 DEF RowStep, c, d, Good
  <1>7. QED
    BY <1>1, <1>6 DEF Good, c, d

-----------------------------------------------------------------------------
(* The budget of one invoice and of its customer *)

Others(k) == SameCustomer(k) \ { k }

\* The cases of S that were contacted.
Contacted(S) == { j \in S : cases[j].last # NoTime }

\* A contacted case exists and counts at least that contact.
Spent ==
    \A k \in Cases : cases[k].last # NoTime =>
        cases[k].contacts >= 1 /\ cases[k].state # "absent"

\* At time t the other cases of the customer leave room for a contact of k.
MayContactNow(k, t) ==
    /\ \A j \in Contacted(Others(k)) : t - cases[j].last >= ContactCooldown
    /\ Cardinality(Contacted(Others(k))) < MaxContacts

\* Customers are shared by equality of their names.
LEMMA CustomersAlike ==
  /\ \A k \in Cases : k \in SameCustomer(k) /\ SameCustomer(k) \subseteq Cases
  /\ \A j, k \in Cases : j \in SameCustomer(k) =>
        k \in SameCustomer(j) /\ SameCustomer(j) = SameCustomer(k)
  BY DEF SameCustomer

\* What _may_contact allows is within the budget: the sum it takes over the
\* siblings is at least the number of those that were contacted.
LEMMA AllowedIsRoom ==
  ASSUME TypeInv, Spent, IsFiniteSet(Cases), NEW k \in Cases,
         NEW c \in CaseRecords, NEW t \in Time, MayContact(k, c, t) = "none"
  PROVE  MayContactNow(k, t)
  <1> DEFINE own == EffectiveContacts(c, t)
             met == Contacted(Others(k))
  <1>0. cases \in [ Cases -> CaseRecords ]
    BY DEF TypeInv, TypeOK
  <1>1. ContactBlocked(c, t) = "none"
    BY DEF MayContact
  <1>2. own \in Nat /\ own < MaxContacts
    BY <1>1, LimitsAssumption DEF ContactBlocked, EffectiveContacts, CaseRecords
  <1>3. CASE CustomerOf[k] = None
    <2>1. met = {}
      BY <1>3 DEF Others, SameCustomer, Contacted
    <2>2. QED
      BY <1>2, <2>1, FS_EmptySet, LimitsAssumption DEF MayContactNow
  <1>4. CASE CustomerOf[k] # None
    <2> DEFINE near == Siblings(k)
               total == SiblingContacts(k)
    <2>1. /\ own + total < MaxContacts \/ ~(own + total >= MaxContacts)
          /\ ~SiblingContactedSince(k, t)
      BY <1>1, <1>4 DEF MayContact
    <2>2. near \in SUBSET Cases /\ IsFiniteSet(near)
      BY FS_Subset DEF Siblings
    <2>3. /\ total \in Nat
          /\ Cardinality({ j \in near : cases[j].contacts >= 1 }) <= total
      <3>1. \A j \in near : cases[j].contacts \in Nat
        BY <1>0, <2>2 DEF CaseRecords
      <3> HIDE DEF near
      <3>2. QED
        BY <2>2, <3>1, SumBounds, SiblingTotal DEF near
    <2>4. met \subseteq { j \in near : cases[j].contacts >= 1 }
      BY <1>4 DEF Contacted, Others, SameCustomer, Siblings, Spent
    <2>5. Cardinality(met) <= total
      <3>1. IsFiniteSet({ j \in near : cases[j].contacts >= 1 })
        BY <2>2, FS_Subset
      <3> HIDE DEF near, met, total
      <3>2. Cardinality(met) <= Cardinality({ j \in near : cases[j].contacts >= 1 })
            /\ Cardinality(met) \in Nat
            /\ Cardinality({ j \in near : cases[j].contacts >= 1 }) \in Nat
        BY <2>4, <3>1, FS_Subset, FS_CardinalityType
      <3>3. QED
        BY <2>3, <3>2
    <2>6. Cardinality(met) < MaxContacts
      <3>1. Cardinality(met) \in Nat
        BY <2>2, <2>4, FS_Subset, FS_CardinalityType
      <3> HIDE DEF met, total, own
      <3>2. QED
        BY <1>2, <2>1, <2>3, <2>5, <3>1, LimitsAssumption
    <2>7. ASSUME NEW j \in met PROVE t - cases[j].last >= ContactCooldown
      <3>1. j \in near /\ cases[j].last # NoTime
        BY <2>4 DEF Contacted
      <3>2. cases[j].last \in Time
        BY <1>0, <2>2, <3>1 DEF CaseRecords
      <3>3. ~(t - cases[j].last < ContactCooldown)
        BY <2>1, <3>1 DEF SiblingContactedSince
      <3>4. QED
        BY <3>2, <3>3, DurationsAssumption DEF Time
    <2>8. QED
      BY <2>6, <2>7 DEF MayContactNow
  <1>5. QED
    BY <1>3, <1>4


-----------------------------------------------------------------------------
(* From a due case to its link *)

\* The steps that lead a worker from an allowed contact to the published link.
Linking == { "claim", "create", "created" }

\* A worker goes on with a link it was about to make.
GoesOn(w) ==
    /\ job[w].pc \in Linking
    /\ job'[w].key = job[w].key /\ job'[w].at = job[w].at

\* A worker has just been allowed to contact the customer.
IsAllowed(w) ==
    /\ job[w].pc = "consider" /\ cases' = cases
    /\ job'[w].key = job[w].key /\ job'[w].at = job[w].at
    /\ MayContact(job[w].key, job[w].snap, job[w].at) = "none"

\* A worker's own step towards a link.
LEMMA OwnLinking ==
  ASSUME TypeInv, NEW w \in Workers, Work(w)
  PROVE  /\ job'[w].pc # "consider"
         /\ job'[w].pc \in Linking => GoesOn(w) \/ IsAllowed(w)
  <1> DEFINE j == job[w]
             Good == /\ job'[w].pc # "consider"
                     /\ job'[w].pc \in Linking => GoesOn(w) \/ IsAllowed(w)
  <1>0. TypeOK /\ job \in [ Workers -> Jobs ]
    BY DEF TypeInv, TypeOK
  <1>1. CASE Consider(w)
    <2> DEFINE blocked == MayContact(j.key, j.snap, j.at)
               P(d) == [ IdleJob EXCEPT !.pc = "commit", !.key = j.key,
                           !.stale = j.stale, !.at = j.at, !.to = d ]
               C == [ IdleJob EXCEPT !.pc = "claim", !.key = j.key, !.at = j.at,
                                     !.amount = j.snap.amount ]
    <2>1. /\ \A d : P(d).pc = "commit"
          /\ C.pc = "claim" /\ C.key = j.key /\ C.at = j.at
      BY DEF IdleJob
    <2> HIDE DEF blocked
    <2>2. /\ j.pc = "consider" /\ cases' = cases
          /\ \/ \E d : job' = [ job EXCEPT ![w] = P(d) ]
             \/ blocked = "none" /\ job' = [ job EXCEPT ![w] = C ]
      BY <1>1 DEF Consider, blocked, db
    <2> HIDE DEF P, C
    <2>3. \/ \E d : job'[w] = P(d)
          \/ blocked = "none" /\ job'[w] = C
      BY <1>0, <2>2
    <2>4. QED
      BY <2>1, <2>2, <2>3 DEF Linking, IsAllowed, blocked
  <1>2. CASE ClaimCreate(w) \/ ProviderCreates(w) \/ ProviderRefuses(w) \/ CancelCall(w)
    <2>1. CASE ClaimCreate(w)
      BY <1>0, <2>1, IdleJobOK DEF ClaimCreate, Jobs, Linking, GoesOn
    <2>2. CASE ProviderCreates(w)
      BY <1>0, <2>2 DEF ProviderCreates, Jobs, Linking, GoesOn
    <2>3. CASE ProviderRefuses(w) \/ CancelCall(w)
      BY <1>0, <2>3 DEF ProviderRefuses, CancelCall, Jobs, Linking
    <2>4. QED
      BY <1>2, <2>1, <2>2, <2>3
  <1>3. CASE Commit(w) \/ RecordUncreated(w) \/ Supersede(w) \/ RecordCancelled(w)
             \/ RecordUncancelled(w) \/ PreviewSave(w) \/ Sweep(w)
    <2> DEFINE S == Saved({ j.key })
    <2>1. \/ job' = [ job EXCEPT ![w] = IdleJob ]
          \/ job' = [ S EXCEPT ![w] = IdleJob ]
          \/ job' = [ job EXCEPT ![w] = CancelJob(j.key, j.row, j.link) ]
      BY <1>3 DEF Commit, RecordUncreated, Supersede, RecordCancelled,
                  RecordUncancelled, PreviewSave, Sweep
    <2>2. /\ IdleJob.pc = "idle" /\ CancelJob(j.key, j.row, j.link).pc = "cancel"
          /\ S \in [ Workers -> Jobs ]
      BY <1>0, SavedFacts DEF IdleJob, CancelJob
    <2> HIDE DEF S
    <2>3. job'[w].pc \in { "idle", "cancel" }
      BY <1>0, <2>1, <2>2
    <2>4. QED
      BY <2>3 DEF Linking
  <1>4. CASE RecordCreated(w)
    <2> DEFINE S == Saved({ j.key })
    <2>1. \/ job' = [ job EXCEPT ![w].pc = "supersede" ]
          \/ job' = [ S EXCEPT ![w] = IdleJob ]
      BY <1>4 DEF RecordCreated
    <2>2. IdleJob.pc = "idle" /\ S \in [ Workers -> Jobs ]
      BY <1>0, SavedFacts DEF IdleJob
    <2> HIDE DEF S
    <2>3. job'[w].pc \in { "idle", "supersede" }
      BY <1>0, <2>1, <2>2 DEF Jobs
    <2>4. QED
      BY <2>3 DEF Linking
  <1> HIDE DEF Good
  <1>5. Good
    BY <1>1, <1>2, <1>3, <1>4 DEF Work, Good
  <1>6. QED
    BY <1>5 DEF Good

\* In any step, a worker that is on its way to a link was on it before or has
\* just been allowed to contact; only a dispatcher considers a case.
LEMMA LinkingSteps ==
  ASSUME TypeInv, [Next]_vars, NEW w \in Workers
  PROVE  /\ job'[w].pc \in Linking => GoesOn(w) \/ IsAllowed(w)
         /\ job'[w].pc = "consider" => job[w].pc = "consider" \/ w \in Dispatchers
  <1>0. TypeOK /\ job \in [ Workers -> Jobs ]
    BY DEF TypeInv, TypeOK
  <1>1. CASE job'[w].pc = job[w].pc /\ job'[w].key = job[w].key /\ job'[w].at = job[w].at
    BY <1>1 DEF GoesOn
  <1>2. CASE Work(w)
    BY <1>2, OwnLinking
  <1>3. CASE Start(w)
    <2>1. job'[w].pc \notin Linking
      BY <1>3, StartsIdle DEF Linking
    <2>2. job'[w].pc = "consider" => w \in Dispatchers
      <3>1. CASE \E e \in sent : Ingest(w, e)
        BY <1>0, <3>1, IngestEnds
      <3>2. CASE \E k \in Cases : Pick(w, k)
        BY <3>2 DEF Pick
      <3>3. CASE \E k \in Cases : PreviewRead(w, k)
        BY <1>0, <3>3 DEF PreviewRead, IdleJob
      <3>4. CASE \E k \in Cases, r \in CancelRows : SweepRead(w, k, r)
        BY <3>4 DEF SweepRead
      <3>5. QED
        BY <1>3, <3>1, <3>2, <3>3, <3>4 DEF Start
    <2>3. QED
      BY <2>1, <2>2
  <1>4. CASE \E v \in Workers \ { w } : Work(v) \/ Start(v)
    BY <1>1, <1>4, OtherWorkers
  <1>5. CASE Operator
    <2>1. \E S : job' = Saved(S)
      BY <1>5 DEF Operator, Reopen
    <2>2. QED
      BY <1>0, <1>1, <2>1, SavedFacts
  <1>6. CASE Environment \/ UNCHANGED vars
    <2>1. job' = job
      BY <1>6 DEF Environment, Decline, Authorise, Capture, PayLink, CloseLink,
                  Reverse, Tick, vars
    <2>2. QED
      BY <1>1, <2>1
  <1>7. CASE Crash
    BY <1>7, IdleJobOK DEF Crash, Linking
  <1>8. QED
    BY <1>2, <1>3, <1>4, <1>5, <1>6, <1>7 DEF Next

-----------------------------------------------------------------------------
(* The contacts of a customer *)

\* Dispatch ticks do not overlap: the caller of POST /actions/dispatch waits for
\* one answer before it posts again.
OneDispatcher == \A v, w \in Dispatchers : v = w

\* Only dispatchers are on their way to a link.
OnlyDispatchers ==
    \A w \in Workers : job[w].pc \in Linking \cup { "consider" } => w \in Dispatchers

\* A worker that is on its way to a link may still contact the customer.
Cleared ==
    \A w \in Workers, k \in Cases, t \in Time :
        job[w].pc \in Linking /\ job[w].key = k /\ job[w].at = t => MayContactNow(k, t)

\* No customer has more contacted cases than the limit.
WithinBudget ==
    \A k \in Cases : Cardinality(Contacted(SameCustomer(k))) <= MaxContacts

\* The inductive invariant.
ContactInv == OnlyDispatchers /\ Spent /\ Cleared /\ ContactsSpaced /\ WithinBudget

\* A row whose contacts a step does not spend is contacted after the step only
\* if it was before, at the same time.
LEMMA KeptContacts ==
  ASSUME TypeInv, CommitsTimely, [Next]_vars, NEW k \in Cases,
         ~ \E w \in Workers : Publishes(w, k), cases'[k].last # NoTime
  PROVE  /\ cases[k].last = cases'[k].last
         /\ cases'[k].contacts = cases[k].contacts
  BY RowContacts DEF SameContacts

\* A contacted case keeps counting its contact.
LEMMA NextSpent ==
  ASSUME TypeInv, CommitsTimely, Spent, [Next]_vars
  PROVE  Spent'
  <1>1. ASSUME NEW k \in Cases, cases'[k].last # NoTime
        PROVE  cases'[k].contacts >= 1 /\ cases'[k].state # "absent"
    <2>1. cases[k].state # "absent" => cases'[k].state # "absent"
      BY RowContacts
    <2>2. CASE \E w \in Workers : Publishes(w, k)
      BY <2>1, <2>2 DEF Publishes
    <2>3. CASE ~ \E w \in Workers : Publishes(w, k)
      BY <1>1, <2>1, <2>3, KeptContacts DEF Spent
    <2>4. QED
      BY <2>2, <2>3
  <1>2. QED
    BY <1>1 DEF Spent


\* While no contact is spent, every set of contacted cases only shrinks, and
\* its contacts keep their times.
LEMMA QuietContacts ==
  ASSUME TypeInv, CommitsTimely, [Next]_vars, IsFiniteSet(Cases),
         NEW S \in SUBSET Cases,
         \A k \in S : ~ \E w \in Workers : Publishes(w, k)
  PROVE  /\ \A k \in S : cases'[k].last # NoTime => cases[k].last = cases'[k].last
         /\ Contacted(S)' \subseteq Contacted(S)
         /\ IsFiniteSet(Contacted(S)) /\ IsFiniteSet(Contacted(S)')
         /\ Cardinality(Contacted(S)') <= Cardinality(Contacted(S))
         /\ Cardinality(Contacted(S)) \in Nat /\ Cardinality(Contacted(S)') \in Nat
  <1>1. \A k \in S : cases'[k].last # NoTime => cases[k].last = cases'[k].last
    BY KeptContacts
  <1>2. Contacted(S)' \subseteq Contacted(S)
    BY <1>1 DEF Contacted
  <1>3. Contacted(S) \in SUBSET Cases /\ Contacted(S)' \in SUBSET Cases
    BY DEF Contacted
  <1>4. IsFiniteSet(Contacted(S)) /\ IsFiniteSet(Contacted(S)')
    BY <1>3, FS_Subset
  <1>5. Cardinality(Contacted(S)') <= Cardinality(Contacted(S))
    BY <1>2, <1>4, FS_Subset
  <1>6. QED
    BY <1>1, <1>2, <1>4, <1>5, FS_CardinalityType

\* The invariant survives a step that publishes no link.
LEMMA QuietStep ==
  ASSUME TypeInv, CommitsTimely, ContactInv, IsFiniteSet(Cases), [Next]_vars,
         \A k \in Cases : ~ \E w \in Workers : Publishes(w, k)
  PROVE  Cleared' /\ ContactsSpaced' /\ WithinBudget'
  <1>0. TypeOK /\ cases \in [ Cases -> CaseRecords ]
    BY DEF TypeInv, TypeOK
  <1>1. ASSUME NEW k \in Cases, NEW t, MayContactNow(k, t)
        PROVE  MayContactNow(k, t)'
    <2>1. Others(k) \in SUBSET Cases
      BY CustomersAlike DEF Others
    <2> DEFINE met == Contacted(Others(k))
    <2>2. /\ \A j \in Others(k) : cases'[j].last # NoTime => cases[j].last = cases'[j].last
          /\ met' \subseteq met
          /\ Cardinality(met') <= Cardinality(met)
          /\ Cardinality(met) \in Nat /\ Cardinality(met') \in Nat
      BY <2>1, QuietContacts
    <2>3. \A j \in met' : j \in Others(k) /\ cases'[j].last # NoTime
      BY DEF Contacted, Others, SameCustomer
    <2>4. \A j \in met' : t - cases'[j].last >= ContactCooldown
      BY <1>1, <2>2, <2>3 DEF MayContactNow
    <2>5. Cardinality(met') < MaxContacts
      <3> HIDE DEF met
      <3>1. Cardinality(met) < MaxContacts
        BY <1>1 DEF MayContactNow, met
      <3>2. QED
        BY <2>2, <3>1, LimitsAssumption
    <2>6. QED
      BY <2>4, <2>5 DEF MayContactNow
  <1>2. Cleared'
    <2>1. ASSUME NEW w \in Workers, NEW k \in Cases, NEW t \in Time,
                 job'[w].pc \in Linking, job'[w].key = k, job'[w].at = t
          PROVE  MayContactNow(k, t)'
      <3>1. MayContactNow(k, t)
        <4>1. CASE GoesOn(w)
          BY <2>1, <4>1 DEF GoesOn, ContactInv, Cleared
        <4>2. CASE IsAllowed(w)
          <5>1. /\ job[w].key = k /\ job[w].at = t /\ job[w].snap \in CaseRecords
                /\ MayContact(k, job[w].snap, t) = "none"
            BY <1>0, <2>1, <4>2, JobFacts DEF IsAllowed
          <5>2. QED
            BY <5>1, AllowedIsRoom DEF ContactInv
        <4>3. QED
          BY <2>1, <4>1, <4>2, LinkingSteps
      <3>2. QED
        BY <1>1, <3>1
    <2>2. QED
      BY <2>1 DEF Cleared
  <1>3. ContactsSpaced'
    <2>1. \A k \in Cases : cases'[k].last # NoTime => cases[k].last = cases'[k].last
      BY KeptContacts
    <2>2. QED
      BY <2>1, CustomersAlike DEF ContactInv, ContactsSpaced
  <1>4. WithinBudget'
    <2>1. ASSUME NEW k \in Cases
          PROVE  Cardinality(Contacted(SameCustomer(k)))' <= MaxContacts
      <3> DEFINE met == Contacted(SameCustomer(k))
      <3>1. SameCustomer(k) \in SUBSET Cases
        BY CustomersAlike
      <3>2. /\ Cardinality(met') <= Cardinality(met)
            /\ Cardinality(met) \in Nat /\ Cardinality(met') \in Nat
        BY <3>1, QuietContacts
      <3>3. Cardinality(met) <= MaxContacts
        BY DEF ContactInv, WithinBudget
      <3> HIDE DEF met
      <3>4. Cardinality(met') <= MaxContacts
        BY <3>2, <3>3, LimitsAssumption
      <3>5. QED
        BY <3>4 DEF met
    <2>2. QED
      BY <2>1 DEF WithinBudget
  <1>5. QED
    BY <1>2, <1>3, <1>4


\* The invariant survives the step in which the dispatcher publishes a link:
\* it was cleared for that contact, and nobody else is on the way to one.
LEMMA PublishStep ==
  ASSUME TypeInv, CommitsTimely, ContactInv, OnlyDispatchers', OneDispatcher,
         IsFiniteSet(Cases), [Next]_vars,
         NEW w \in Workers, NEW k \in Cases, Publishes(w, k)
  PROVE  Cleared' /\ ContactsSpaced' /\ WithinBudget'
  <1> DEFINE t == job[w].at
             met == Contacted(Others(k))
  <1>0. /\ TypeOK /\ cases \in [ Cases -> CaseRecords ]
        /\ cases' \in [ Cases -> CaseRecords ] /\ t \in Time
    <2>1. TypeOK /\ TypeOK'
      BY NextType DEF TypeInv
    <2>2. QED
      BY <2>1, JobFacts DEF TypeOK
  <1>1. \A v \in Workers : job[v].pc \in Linking => v = w
    BY DEF ContactInv, OnlyDispatchers, OneDispatcher, Publishes, Linking
  <1>2. \A v \in Workers : job'[v].pc \notin Linking
    <2>1. w \in Dispatchers /\ job'[w].pc = "idle"
      BY DEF ContactInv, OnlyDispatchers, Publishes, Linking
    <2>2. \A v \in Workers : job'[v].pc \in Linking => v \in Dispatchers
      BY DEF OnlyDispatchers
    <2>3. QED
      BY <2>1, <2>2 DEF OneDispatcher, Linking
  <1>3. Cleared'
    BY <1>2 DEF Cleared
  <1>4. \A i \in Cases \ { k } : ~ \E v \in Workers : Publishes(v, i)
    BY <1>1 DEF Publishes, Linking
  <1>5. cases'[k].last = t /\ t # NoTime
    BY <1>0 DEF Publishes, Time, NoTime
  <1>6. /\ \A j \in met : t - cases[j].last >= ContactCooldown
        /\ Cardinality(met) < MaxContacts
    <2>1. MayContactNow(k, t)
      BY <1>0 DEF ContactInv, Cleared, Publishes, Linking
    <2>2. QED
      BY <2>1 DEF MayContactNow
  <1>7. /\ \A j \in Cases \ { k } : cases'[j].last # NoTime => cases[j].last = cases'[j].last
    BY <1>4, KeptContacts
  <1> HIDE DEF t
  <1>8. ContactsSpaced'
    <2>1. ASSUME NEW i \in Cases, NEW j \in SameCustomer(i) \ { i },
                 cases'[i].last # NoTime, cases'[j].last # NoTime,
                 cases'[i].last <= cases'[j].last
          PROVE  cases'[j].last - cases'[i].last >= ContactCooldown
      <3>0. /\ j \in Cases /\ cases'[i].last \in Time /\ cases'[j].last \in Time
            /\ i \in SameCustomer(j) \ { j }
        <4>1. j \in Cases /\ i \in SameCustomer(j) \ { j }
          BY CustomersAlike
        <4>2. QED
          BY <1>0, <2>1, <4>1 DEF CaseRecords
      <3>1. CASE i # k /\ j # k
        BY <1>7, <2>1, <3>0, <3>1 DEF ContactInv, ContactsSpaced
      <3>2. CASE j = k
        <4>1. cases[i].last = cases'[i].last
          BY <1>7, <2>1, <3>2
        <4>2. i \in met
          BY <2>1, <3>0, <3>2, <4>1, CustomersAlike DEF Contacted, Others
        <4>3. t - cases[i].last >= ContactCooldown
          BY <1>6, <4>2
        <4>4. QED
          BY <1>5, <3>2, <4>1, <4>3
      <3>3. CASE i = k
        <4>1. cases[j].last = cases'[j].last
          BY <1>7, <2>1, <3>0, <3>3
        <4>2. j \in met
          BY <2>1, <3>3, <4>1 DEF Contacted, Others
        <4>3. t - cases'[j].last >= ContactCooldown /\ t <= cases'[j].last
          BY <1>5, <1>6, <2>1, <3>3, <4>1, <4>2
        <4>4. QED
          BY <1>0, <1>5, <3>0, <3>3, <4>3, DurationsAssumption DEF Time
      <3>4. QED
        BY <3>1, <3>2, <3>3
    <2>2. QED
      BY <2>1 DEF ContactsSpaced
  <1>9. ASSUME NEW i \in Cases
        PROVE  Cardinality(Contacted(SameCustomer(i))') <= MaxContacts
    <2> DEFINE all == Contacted(SameCustomer(i))
    <2>0. SameCustomer(i) \in SUBSET Cases
      BY CustomersAlike
    <2>1. CASE k \notin SameCustomer(i)
      <3>1. \A j \in SameCustomer(i) : ~ \E v \in Workers : Publishes(v, j)
        BY <1>4, <2>0, <2>1
      <3>2. /\ Cardinality(all') <= Cardinality(all)
            /\ Cardinality(all) \in Nat /\ Cardinality(all') \in Nat
        BY <2>0, <3>1, QuietContacts
      <3>3. Cardinality(all) <= MaxContacts
        BY DEF ContactInv, WithinBudget
      <3> HIDE DEF all
      <3>4. Cardinality(all') <= MaxContacts
        BY <3>2, <3>3, LimitsAssumption
      <3>5. QED
        BY <3>4 DEF all
    <2>2. CASE k \in SameCustomer(i)
      <3>1. SameCustomer(i) = SameCustomer(k)
        BY <2>2, CustomersAlike
      <3>2. Contacted(SameCustomer(i))' \subseteq met \cup { k }
        BY <1>7, <2>0, <3>1 DEF Contacted, Others
      <3>3. IsFiniteSet(met) /\ Cardinality(met) \in Nat
        <4>1. met \in SUBSET Cases
          BY DEF Contacted, Others, SameCustomer
        <4>2. QED
          BY <4>1, FS_Subset, FS_CardinalityType
      <3> DEFINE then == Contacted(SameCustomer(i))'
      <3>4. Cardinality(met) < MaxContacts
        BY <1>6
      <3> HIDE DEF met, then
      <3>5. then \subseteq met \cup { k }
        BY <3>2 DEF then
      <3>6. IsFiniteSet(met \cup { k }) /\ Cardinality(met \cup { k }) <= Cardinality(met) + 1
            /\ Cardinality(met \cup { k }) \in Nat
        <4>1. /\ IsFiniteSet(met \cup { k })
              /\ Cardinality(met \cup { k }) \in { Cardinality(met), Cardinality(met) + 1 }
          BY <3>3, FS_AddElement
        <4>2. QED
          BY <3>3, <4>1
      <3>7. Cardinality(then) <= Cardinality(met \cup { k }) /\ Cardinality(then) \in Nat
        BY <3>5, <3>6, FS_Subset, FS_CardinalityType
      <3>8. Cardinality(then) <= MaxContacts
        BY <3>3, <3>4, <3>6, <3>7, LimitsAssumption
      <3>9. QED
        BY <3>8 DEF then
    <2>3. QED
      BY <2>1, <2>2
  <1>10. WithinBudget'
    BY <1>9 DEF WithinBudget
  <1>11. QED
    BY <1>3, <1>8, <1>10

\* Every step keeps the invariant.
LEMMA NextContacts ==
  ASSUME OneDispatcher, IsFiniteSet(Cases)
  PROVE  TypeInv /\ CommitsTimely /\ ContactInv /\ [Next]_vars => ContactInv'
  <1> SUFFICES ASSUME TypeInv, CommitsTimely, ContactInv, [Next]_vars PROVE ContactInv'
    OBVIOUS
  <1>1. OnlyDispatchers'
    BY LinkingSteps DEF OnlyDispatchers, ContactInv, GoesOn, IsAllowed, Linking
  <1>2. Spent'
    BY NextSpent DEF ContactInv
  <1>3. CASE \A k \in Cases : ~ \E w \in Workers : Publishes(w, k)
    BY <1>1, <1>2, <1>3, QuietStep DEF ContactInv
  <1>4. CASE \E k \in Cases, w \in Workers : Publishes(w, k)
    <2>1. PICK k \in Cases, w \in Workers : Publishes(w, k)
      BY <1>4
    <2>2. Cleared' /\ ContactsSpaced' /\ WithinBudget'
      BY <1>1, <2>1, PublishStep
    <2>3. QED
      BY <1>1, <1>2, <2>2 DEF ContactInv
  <1>5. QED
    BY <1>3, <1>4

\* Nobody has been contacted at the start.
LEMMA InitContacts == Init => ContactInv
  <1> SUFFICES ASSUME Init PROVE ContactInv
    OBVIOUS
  <1>1. \A k \in Cases : cases[k].last = NoTime
    BY DEF Init, AbsentCase, NewCase
  <1>2. \A w \in Workers : job[w].pc = "idle"
    BY IdleJobOK DEF Init
  <1>3. OnlyDispatchers /\ Spent /\ Cleared /\ ContactsSpaced
    BY <1>1, <1>2, CustomersAlike DEF OnlyDispatchers, Spent, Cleared, ContactsSpaced, Linking
  <1>4. WithinBudget
    <2>1. \A k \in Cases : Contacted(SameCustomer(k)) = {}
      BY <1>1, CustomersAlike DEF Contacted
    <2>2. QED
      BY <2>1, FS_EmptySet, LimitsAssumption DEF WithinBudget
  <1>5. QED
    BY <1>3, <1>4 DEF ContactInv

-----------------------------------------------------------------------------
(* The theorems *)

\* The invariant holds in every reachable state.
LEMMA ContactsInvariant ==
  ASSUME OneDispatcher, IsFiniteSet(Cases)
  PROVE  Spec => []ContactInv
  <1>1. TypeInv /\ CommitsTimely /\ ContactInv /\ [Next]_vars => ContactInv'
    BY NextContacts
  <1>2. QED
    BY <1>1, InitContacts, TypeInvariant, CommitsInvariant, PTL DEF Spec

\* Two contacts of one customer, about whatever invoices, are at least the
\* contact cooldown apart, as long as dispatch ticks do not overlap.
THEOREM ContactsAreSpaced ==
  ASSUME OneDispatcher, IsFiniteSet(Cases)
  PROVE  Spec => []ContactsSpaced
  <1>1. ContactInv => ContactsSpaced
    BY DEF ContactInv
  <1>2. Spec => []ContactInv
    BY ContactsInvariant
  <1>3. QED
    BY <1>1, <1>2, PTL

\* No customer is contacted more often than the limit in any window, however
\* many invoices fail, as long as dispatch ticks do not overlap.
THEOREM BudgetIsKept ==
  ASSUME OneDispatcher, IsFiniteSet(Cases)
  PROVE  Spec => []ContactBudgetKept
  <1>1. ContactInv => ContactBudgetKept
    <2> SUFFICES ASSUME ContactInv, NEW k \in Cases
                 PROVE  Cardinality({ j \in SameCustomer(k) :
                          /\ cases[j].last # NoTime /\ cases[j].last <= cases[k].last
                          /\ cases[k].last - cases[j].last < ContactWindow }) <= MaxContacts
      BY DEF ContactBudgetKept
    <2> DEFINE recent == { j \in SameCustomer(k) :
                 /\ cases[j].last # NoTime /\ cases[j].last <= cases[k].last
                 /\ cases[k].last - cases[j].last < ContactWindow }
               all == Contacted(SameCustomer(k))
    <2>1. recent \subseteq all /\ all \in SUBSET Cases
      BY CustomersAlike DEF Contacted
    <2>2. Cardinality(all) <= MaxContacts
      BY DEF ContactInv, WithinBudget
    <2> HIDE DEF recent, all
    <2>3. IsFiniteSet(all) /\ Cardinality(all) \in Nat
      BY <2>1, FS_Subset, FS_CardinalityType
    <2>4. Cardinality(recent) <= Cardinality(all) /\ Cardinality(recent) \in Nat
      BY <2>1, <2>3, FS_Subset, FS_CardinalityType
    <2>5. Cardinality(recent) <= MaxContacts
      BY <2>2, <2>3, <2>4, LimitsAssumption
    <2>6. QED
      BY <2>5 DEF recent
  <1>2. Spec => []ContactInv
    BY ContactsInvariant
  <1>3. QED
    BY <1>1, <1>2, PTL

=============================================================================
