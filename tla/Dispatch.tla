------------------------------ MODULE Dispatch ------------------------------
(***************************************************************************)
(* One dispatch tick after another (dispatch_due_actions, app/service.py): *)
(* bounded batches served in the order of due_cases and failed_actions     *)
(* (app/store.py) and the release quota of a recovering issuer.  Recovery  *)
(* lets two threads race on a case; here one dispatcher works through the  *)
(* whole backlog while webhooks arrive, the clock goes on and the process  *)
(* may die.                                                                *)
(*                                                                         *)
(* Time is relative: left counts down to a deadline and stops at zero, so  *)
(* the clock never ends and neither do the ticks.  Webhooks are timely.    *)
(***************************************************************************)
EXTENDS Integers, SequencesExt

CONSTANTS
    Cases,               \* case ids, which order as uuids do
    Issuers, IssuerOf,   \* (issuer, rail) of each case
    Batch,               \* settings.dispatch_batch_size
    SweepBatch,          \* settings.link_cancel_retry_batch
    Quota,               \* settings.max_releases_per_tick
    MaxCancelAttempts,
    Cooldown, ReleaseJitter, RetryEscalation,
    Offset,              \* _release_offset, the digest of the logical key
    MaxMishaps           \* bound: crashes and repeated failures

ASSUME DispatchAssumption ==
    /\ Cases \subseteq Nat /\ IsFiniteSet(Cases)
    /\ IssuerOf \in [ Cases -> Issuers ]
    /\ Batch \in Nat \ {0} /\ SweepBatch \in Nat \ {0} /\ Quota \in Nat
    /\ MaxCancelAttempts \in Nat \ {0}
    /\ Cooldown \in Nat /\ ReleaseJitter \in Nat /\ RetryEscalation \in Nat
    /\ Offset \in [ Cases -> 0 .. ReleaseJitter ]
    /\ MaxMishaps \in Nat

VARIABLES
    case,       \* state, time left and "saved since the clock moved"
    timed,      \* cooldown and retry_scheduled, by (next_action_at, updated_at, id)
    consent,    \* consent_required, by (updated_at, id)
    burnt,      \* cases whose payment-link action key is taken
    rows,       \* cancel actions, by created_at: status and attempts
    degraded,   \* health verdict of each issuer
    tick,       \* the tick in progress
    released,   \* history: releases of each issuer since the clock moved
    crashed,    \* history: crashes since the clock moved
    mishaps     \* crashes, and failures of a case that had failed before

vars == << case, timed, consent, burnt, rows, degraded, tick, released, crashed,
           mishaps >>

Timed == { "cooldown", "retry_scheduled" }
Waiting == Timed \cup { "consent_required" }
\* "closed": final, held or parked, nothing for a tick to do.
CaseStates == Waiting \cup { "none", "link_sent", "closed" }

\* A batch holds the place, the id and the state of what was read.
IdleTick == [ pc |-> "idle", batch |-> {}, used |-> [ i \in Issuers |-> 0 ],
              stale |-> {} ]

Init ==
    /\ case = [ c \in Cases |-> [ state |-> "none", left |-> 0, fresh |-> FALSE ] ]
    /\ timed = << >> /\ consent = << >>
    /\ burnt = {}
    /\ rows = << >>
    /\ degraded = [ i \in Issuers |-> FALSE ]
    /\ tick = IdleTick
    /\ released = [ i \in Issuers |-> 0 ]
    /\ crashed = 0
    /\ mishaps = 0

-----------------------------------------------------------------------------
(* save_case and the order of due_cases *)

\* c joins a line, newest update last, ahead of the cases that come after it;
\* two saves of one instant order by id.
Place(line, c, after) ==
    LET later == { i \in DOMAIN line : line[i] \in after }
    IN IF later = {} THEN Append(line, c) ELSE InsertAt(line, Min(later), c)

\* Mutant: the order is updated_at alone.
BadInTimed(line, c, left) == Append(line, c)

InTimed(line, c, left) ==
    Place(line, c, { x \in Cases :
        case[x].left > left \/ (case[x].left = left /\ case[x].fresh /\ x > c) })

InConsent(line, c) == Place(line, c, { x \in Cases : case[x].fresh /\ x > c })

\* Every save sets updated_at: c leaves its line and joins the one of its
\* new state.
Save(c, state, left) ==
    /\ case' = [ case EXCEPT ![c] = [ state |-> state, left |-> left,
                                      fresh |-> state \in Waiting ] ]
    /\ timed' = IF state \in Timed THEN InTimed(RemoveFirst(timed, c), c, left)
                ELSE RemoveFirst(timed, c)
    /\ consent' = IF state = "consent_required"
                  THEN InConsent(RemoveFirst(consent, c), c)
                  ELSE RemoveFirst(consent, c)

\* A save by anyone else makes the tick's snapshot of c out of date.
Touch(c) ==
    tick' = IF \E b \in tick.batch : b.id = c
            THEN [ tick EXCEPT !.stale = @ \cup { c } ] ELSE tick

\* The first n of some places.
First(places, n) == { i \in places : Cardinality({ j \in places : j < i }) < n }

\* Mutant: a case without a deadline is never selected.
BadDueBatch(line) ==
    LET due == { i \in DOMAIN line : case[line[i]].state \in Timed
                                     /\ case[line[i]].left = 0 }
    IN { [ at |-> i, id |-> line[i], state |-> case[line[i]].state ] :
         i \in First(due, Batch) }

\* The first Batch cases whose deadline came (or that have none), as snapshots.
DueBatch(line) ==
    LET due == { i \in DOMAIN line : case[line[i]].left = 0 }
    IN { [ at |-> i, id |-> line[i], state |-> case[line[i]].state ] :
         i \in First(due, Batch) }

-----------------------------------------------------------------------------
(* dispatch_due_actions *)

\* A batch is worked through in its order.
Turn == CHOOSE b \in tick.batch : \A x \in tick.batch : b.at <= x.at

Done(used) == tick' = [ tick EXCEPT !.batch = @ \ { Turn }, !.used = used ]

StartTick ==
    /\ tick.pc = "idle"
    /\ tick' = [ tick EXCEPT !.pc = "timers", !.batch = DueBatch(timed) ]
    /\ UNCHANGED << case, timed, consent, burnt, rows, degraded, released, crashed,
                    mishaps >>

\* _commit_state: a snapshot that is out of date is skipped, slot and all.
Commit(c, state, left, used) ==
    /\ IF c \in tick.stale THEN UNCHANGED << case, timed, consent >>
       ELSE Save(c, state, left)
    /\ Done(used)

\* Mutant: a case without a slot keeps its deadline.
BadHeldFor == 0

\* A case that found no release slot waits this long.
HeldFor == ReleaseJitter

\* _promote_timed_case, cooldown: still degraded, no slot left, or released.
PromoteCooldown ==
    LET c == Turn.id
        i == IssuerOf[c]
        used == [ tick.used EXCEPT ![i] = @ + 1 ]
    IN /\ tick.pc = "timers" /\ tick.batch # {}
       /\ Turn.state = "cooldown"
       /\ \/ /\ degraded[i]
             /\ Commit(c, "cooldown", Cooldown, tick.used)
             /\ UNCHANGED released
          \/ /\ ~degraded[i] /\ tick.used[i] >= Quota
             /\ Commit(c, "cooldown", HeldFor, tick.used)
             /\ UNCHANGED released
          \/ /\ ~degraded[i] /\ tick.used[i] < Quota
             /\ Commit(c, "retry_scheduled", RetryEscalation + Offset[c], used)
             /\ released' = IF c \in tick.stale THEN released
                            ELSE [ released EXCEPT ![i] = @ + 1 ]
       /\ UNCHANGED << burnt, rows, degraded, crashed, mishaps >>

\* _promote_timed_case, retry window elapsed: ask for consent, unless the
\* attempts are spent or the contact budget refuses.
PromoteRetry ==
    LET c == Turn.id
    IN /\ tick.pc = "timers" /\ tick.batch # {}
       /\ Turn.state = "retry_scheduled"
       /\ \E state \in { "consent_required", "closed" } :
             Commit(c, state, 0, tick.used)
       /\ UNCHANGED << burnt, rows, degraded, released, crashed, mishaps >>

EndTimers ==
    /\ tick.pc = "timers" /\ tick.batch = {}
    /\ tick' = [ tick EXCEPT !.pc = "links", !.batch = DueBatch(consent),
                             !.stale = {} ]
    /\ UNCHANGED << case, timed, consent, burnt, rows, degraded, released, crashed,
                    mishaps >>

\* _create_recovery_link.  The budget refuses; or the key is taken and the
\* case is left exactly as it was; or the provider is asked, and answers
\* with a link or an error, or the case moved on and the link is withdrawn.
CreateLink ==
    LET c == Turn.id
    IN /\ tick.pc = "links" /\ tick.batch # {}
       /\ \/ /\ Commit(c, "closed", 0, tick.used)
             /\ UNCHANGED burnt
          \/ /\ c \in burnt
             /\ Done(tick.used)
             /\ UNCHANGED << case, timed, consent, burnt >>
          \/ /\ c \notin burnt /\ case[c].state = "consent_required"
             /\ burnt' = burnt \cup { c }
             /\ \E state \in { "link_sent", "closed" } :
                   Save(c, state, 0)
             /\ Done(tick.used)
          \/ /\ c \notin burnt /\ case[c].state # "consent_required"
             /\ burnt' = burnt \cup { c }
             /\ Done(tick.used)
             /\ UNCHANGED << case, timed, consent >>
       /\ UNCHANGED << rows, degraded, released, crashed, mishaps >>

\* failed_actions: rows with attempts left, oldest first, a bounded number.
SweepRows ==
    LET open == { n \in DOMAIN rows : rows[n].status = "failed"
                                      /\ rows[n].tries < MaxCancelAttempts }
    IN { [ at |-> n, id |-> rows[n].id, state |-> "closed" ] :
         n \in First(open, SweepBatch) }

EndLinks ==
    /\ tick.pc = "links" /\ tick.batch = {}
    /\ tick' = [ tick EXCEPT !.pc = "sweep", !.batch = SweepRows, !.stale = {} ]
    /\ UNCHANGED << case, timed, consent, burnt, rows, degraded, released, crashed,
                    mishaps >>

\* Mutant: a retry of the sweep is not counted.
BadTried(r, status) == [ r EXCEPT !.status = status ]

Tried(r, status) == [ r EXCEPT !.status = status, !.tries = @ + 1 ]

\* retry_failed_link_cancels: claim the row, call the provider, save the
\* case; or close the row of a link that is cancelled already.
SweepOne ==
    LET c == Turn.id
        n == Turn.at
    IN /\ tick.pc = "sweep" /\ tick.batch # {}
       /\ \/ /\ \E status \in { "failed", "succeeded" } :
                   rows' = [ rows EXCEPT ![n] = Tried(@, status) ]
             /\ Save(c, case[c].state, case[c].left)
             /\ Done(tick.used)
          \/ /\ rows' = [ rows EXCEPT ![n].status = "succeeded" ]
             /\ Done(tick.used)
             /\ UNCHANGED << case, timed, consent >>
       /\ UNCHANGED << burnt, degraded, released, crashed, mishaps >>

\* Mutant: the quota belongs to the service, not to the tick.
BadEndTick ==
    /\ tick.pc = "sweep" /\ tick.batch = {}
    /\ tick' = [ IdleTick EXCEPT !.used = tick.used ]
    /\ UNCHANGED << case, timed, consent, burnt, rows, degraded, released, crashed,
                    mishaps >>

EndTick ==
    /\ tick.pc = "sweep" /\ tick.batch = {}
    /\ tick' = IdleTick
    /\ UNCHANGED << case, timed, consent, burnt, rows, degraded, released, crashed,
                    mishaps >>

-----------------------------------------------------------------------------
(* Meanwhile *)

\* decide(): parked, for the customer, or on a timer.
Decided(c) ==
    \/ \E state \in { "consent_required", "closed" } : Save(c, state, 0)
    \/ degraded[IssuerOf[c]] /\ Save(c, "cooldown", Cooldown)
    \/ ~degraded[IssuerOf[c]] /\ Save(c, "retry_scheduled", RetryEscalation)

\* _handle_failure_event; an actioned case only counts the attempt.
Fail(c) ==
    /\ case[c].state # "closed"
    /\ IF case[c].state = "none" THEN UNCHANGED mishaps
       ELSE mishaps < MaxMishaps /\ mishaps' = mishaps + 1
    /\ IF case[c].state \in Timed \cup { "none" } THEN Decided(c)
       ELSE Save(c, case[c].state, case[c].left)
    /\ Touch(c)
    /\ UNCHANGED << burnt, rows, degraded, released, crashed >>

\* The invoice is captured or reversed; the revocation of a live link may
\* fail at the provider, which leaves a cancel row to sweep.
Settle(c) ==
    /\ case[c].state \notin { "none", "closed" }
    /\ Save(c, "closed", 0)
    /\ Touch(c)
    /\ \/ UNCHANGED rows
       \/ /\ case[c].state = "link_sent"
          /\ rows' = Append(rows, [ id |-> c, status |-> "failed", tries |-> 1 ])
    /\ UNCHANGED << burnt, degraded, released, crashed, mishaps >>

\* The process dies in a tick, perhaps with a key claimed and no link to
\* show for it; what was committed stays.
Crash ==
    /\ tick.pc # "idle" /\ mishaps < MaxMishaps
    /\ \/ UNCHANGED burnt
       \/ /\ tick.pc = "links" /\ tick.batch # {}
          /\ burnt' = burnt \cup { Turn.id }
    /\ tick' = IdleTick
    /\ mishaps' = mishaps + 1 /\ crashed' = crashed + 1
    /\ UNCHANGED << case, timed, consent, rows, degraded, released >>

Health(i) ==
    /\ degraded' = [ degraded EXCEPT ![i] = ~@ ]
    /\ UNCHANGED << case, timed, consent, burnt, rows, tick, released, crashed,
                    mishaps >>

\* The clock moves between ticks (a tick has one now).
Advance ==
    /\ tick.pc = "idle"
    /\ case' = [ c \in Cases |-> [ case[c] EXCEPT !.fresh = FALSE,
                    !.left = IF @ = 0 THEN 0 ELSE @ - 1 ] ]
    /\ released' = [ i \in Issuers |-> 0 ] /\ crashed' = 0
    /\ UNCHANGED << timed, consent, burnt, rows, degraded, tick, mishaps >>

-----------------------------------------------------------------------------
Step == \/ PromoteCooldown \/ PromoteRetry \/ EndTimers
        \/ CreateLink \/ EndLinks \/ SweepOne \/ EndTick

Next ==
    \/ StartTick \/ Step \/ Advance
    \/ \E c \in Cases : Fail(c) \/ Settle(c)
    \/ Crash
    \/ \E i \in Issuers : Health(i)

\* The scheduler calls the tick again and again and time passes between the
\* calls; a tick that started runs to its end (every provider call times out).
Spec ==
    /\ Init /\ [][Next]_vars
    /\ SF_vars(StartTick) /\ WF_vars(Step) /\ SF_vars(Advance)

-----------------------------------------------------------------------------
(* Properties *)

\* Each case stands in the line of its state, once, and the lines are in the
\* order of the deadlines and of the updates.
LinesOK ==
    /\ timed \in Seq(Cases) /\ consent \in Seq(Cases)
    /\ ToSet(timed) = { c \in Cases : case[c].state \in Timed }
    /\ ToSet(consent) = { c \in Cases : case[c].state = "consent_required" }
    /\ IsInjective(timed) /\ IsInjective(consent)
    /\ \A i, j \in DOMAIN timed : i < j => case[timed[i]].left <= case[timed[j]].left
    /\ \A i, j \in DOMAIN consent :
          i < j /\ case[consent[i]].fresh => case[consent[j]].fresh

\* Every variable has its type and the lines are in order: the tick neither
\* loses a waiting case nor serves one before its turn.
TypeOK ==
    /\ case \in [ Cases -> [ state : CaseStates, left : Nat, fresh : BOOLEAN ] ]
    /\ LinesOK
    /\ burnt \subseteq Cases
    /\ rows \in Seq([ id : Cases, status : { "failed", "succeeded" }, tries : Nat ])
    /\ degraded \in [ Issuers -> BOOLEAN ]
    /\ tick \in [ pc : { "idle", "timers", "links", "sweep" },
                  batch : SUBSET [ at : Nat, id : Cases, state : CaseStates ],
                  used : [ Issuers -> 0 .. Quota ],
                  stale : SUBSET Cases ]
    /\ released \in [ Issuers -> Nat ] /\ crashed \in Nat
    /\ mishaps \in 0 .. MaxMishaps

\* How many batches the whole backlog fills.
Batches ==
    Min({ n \in 0 .. Cardinality(Cases) : n * Batch >= Cardinality(Cases) })

\* "A recovered outage drains rather than bursts": however often the tick is
\* called in one instant, an issuer gets Quota releases for each batch of
\* the backlog, because a case that found no slot is moved out of the instant,
\* and Quota more for each tick that died.
BurstBounded ==
    \A i \in Issuers : released[i] <= Quota * (Batches + crashed)

\* Once the issuers are healthy for good, every cooled case is let go: the
\* quota delays a case but never holds it for ever.
CooldownDrains ==
    <>[](\A i \in Issuers : ~degraded[i])
        => []<>(\A c \in Cases : case[c].state # "cooldown")

\* A bounded batch is safe only if the order is fair: every case that waits
\* for a link it may still be given leaves the line or has its key claimed,
\* whoever else stands in the line.
ConsentServed ==
    []<>(\A c \in Cases : case[c].state = "consent_required" => c \in burnt)

\* Every failed cancel is settled or runs out of attempts, though the sweep
\* takes SweepBatch rows at a time and always starts from the oldest.
CancelsSettle ==
    []<>(\A i \in DOMAIN rows : \/ rows[i].status = "succeeded"
                                \/ rows[i].tries >= MaxCancelAttempts)

=============================================================================
