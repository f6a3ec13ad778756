------------------------------- MODULE Health -------------------------------
(***************************************************************************)
(* BankHealthMonitor (app/bank_health.py): a rolling window of outcomes    *)
(* per issuer and rail, at most MaxKeys of them in LRU order, over the     *)
(* durable health_observations table of app/store.py that a restarted      *)
(* process restores from.  Observations carry the time of the webhook's    *)
(* event, which may lie up to Lag in the past: webhooks arrive late and    *)
(* out of order.                                                           *)
(***************************************************************************)
EXTENDS Integers, SequencesExt

CONSTANTS
    Keys,          \* issuer and rail pairs
    Window,        \* settings.health_window
    MinSamples,    \* settings.health_min_samples
    RateNum, RateDen,   \* settings.health_degraded_success_rate, as a fraction
    MaxKeys,       \* settings.health_max_tracked_keys
    Lag,           \* how late a webhook may be
    MaxTime, MaxObservations, MaxRestarts   \* bounds

ASSUME HealthAssumption ==
    /\ Window \in Nat /\ MinSamples \in Nat /\ Lag \in Nat
    /\ RateNum \in Nat /\ RateDen \in Nat \ {0}
    /\ MaxKeys \in Nat \ {0}
    /\ MaxTime \in Nat /\ MaxObservations \in Nat /\ MaxRestarts \in Nat

VARIABLES
    tracked,    \* _observations: windows by key, and the keys in LRU order
    log,        \* health_observations: how many of each row it holds
    now,
    restarts,
    loading,    \* the process restores its windows and does not serve yet
    pending,    \* the rows that restore() has read and not yet replayed
    before      \* history: the verdicts at the last restart

vars == << tracked, log, now, restarts, loading, pending, before >>

Rows == [ key : Keys, at : 0 .. MaxTime, ok : BOOLEAN ]

NoRows == [ o \in Rows |-> 0 ]

Observation(k, at, ok) == [ key |-> k, at |-> at, ok |-> ok ]

\* gone: keys whose window was evicted since the process started.
Empty == [ window |-> [ k \in Keys |-> << >> ], order |-> << >>, gone |-> {} ]

\* firm: the keys that had a verdict on nothing but the last Window.
NoVerdicts == [ firm |-> {}, degraded |-> {} ]

Init ==
    /\ tracked = Empty
    /\ log = NoRows
    /\ now = 0
    /\ restarts = 0
    /\ loading = FALSE
    /\ pending = NoRows
    /\ before = NoVerdicts

-----------------------------------------------------------------------------
(* The windows *)

\* Mutant: a boundary observation is dropped too.
BadTrim(w, t) ==
    LET fresh == { i \in DOMAIN w : w[i].at > t - Window }
    IN IF fresh = {} THEN << >> ELSE SubSeq(w, Min(fresh), Len(w))

\* Mutant: one stale observation is dropped, not all at the head.
BadTrimOnce(w, t) ==
    IF w # << >> /\ Head(w).at < t - Window THEN Tail(w) ELSE w

\* _trim: pop from the head while it is older than the window.
Trim(w, t) ==
    LET fresh == { i \in DOMAIN w : w[i].at >= t - Window }
    IN IF fresh = {} THEN << >> ELSE SubSeq(w, Min(fresh), Len(w))

\* OrderedDict.move_to_end, which also adds a new key.
MovedToEnd(order, k) == Append(RemoveFirst(order, k), k)

\* Mutant: the table of windows is not capped.
BadTouch(m, k) == [ m EXCEPT !.order = MovedToEnd(m.order, k) ]

\* _window_for(create=True): the key moves to the end of the order; a new one
\* may push the least recently used window out.
Touch(m, k) ==
    LET order == MovedToEnd(m.order, k)
        victim == Head(order)
    IN IF Len(order) <= MaxKeys THEN [ m EXCEPT !.order = order ]
       ELSE [ m EXCEPT !.order = Tail(order),
                       !.window[victim] = << >>,
                       !.gone = @ \cup { victim } ]

Remember(m, o) ==
    LET touched == Touch(m, o.key)
    IN [ touched EXCEPT !.window[o.key] = Append(@, o) ]

\* success_rate < degraded_success_rate over at least min_samples.
Degraded(w) ==
    LET successes == Cardinality({ i \in DOMAIN w : w[i].ok })
    IN Len(w) >= MinSamples /\ successes * RateDen < RateNum * Len(w)

-----------------------------------------------------------------------------
(* Operations *)

Observe(k, ok, at) ==
    LET o == Observation(k, at, ok)
        m == Remember(tracked, o)
    IN /\ ~loading /\ FoldFunction(+, 0, log) < MaxObservations
       /\ tracked' = [ m EXCEPT !.window[k] = Trim(@, at) ]
       /\ log' = [ log EXCEPT ![o] = @ + 1 ]
       /\ UNCHANGED << now, restarts, loading, pending, before >>

\* A read for a decision at time t: trims, and touches a window that exists.
Snapshot(k, t) ==
    LET m == Touch(tracked, k)
    IN /\ ~loading /\ k \in ToSet(tracked.order)
       /\ tracked' = [ m EXCEPT !.window[k] = Trim(@, t) ]
       /\ UNCHANGED << log, now, restarts, loading, pending, before >>

\* Every key is read in LRU order, which leaves the order as it was.
DegradedSnapshots ==
    /\ ~loading
    /\ tracked' = [ tracked EXCEPT
                      !.window = [ k \in Keys |-> Trim(tracked.window[k], now) ] ]
    /\ UNCHANGED << log, now, restarts, loading, pending, before >>

\* Mutant: the boundary is excluded when the table is read back.
BadRecent(o, t) == o.at > t - Window

\* prune_observations and load_observations share the cutoff.
Recent(o, t) == o.at >= t - Window

\* The keys whose verdict at this moment rests on no hidden, expired outcome.
Firm == { k \in Keys \ tracked.gone :
            \A o \in ToSet(Trim(tracked.window[k], now)) : o.at >= now - Window }

\* The process dies and comes back: prune the table and read it.
Restart ==
    LET kept == [ o \in Rows |-> IF Recent(o, now) THEN log[o] ELSE 0 ]
    IN /\ restarts < MaxRestarts
       /\ restarts' = restarts + 1
       /\ loading' = TRUE
       /\ log' = kept /\ pending' = kept
       /\ tracked' = Empty
       /\ before' = IF loading THEN NoVerdicts
                    ELSE [ firm |-> Firm,
                           degraded |-> { k \in Firm :
                             Degraded(Trim(tracked.window[k], now)) } ]
       /\ UNCHANGED now

\* restore() replays the rows ordered by time; ties come in any order.
Replay(o) ==
    /\ loading /\ pending[o] > 0
    /\ \A x \in Rows : pending[x] > 0 => o.at <= x.at
    /\ tracked' = Remember(tracked, o)
    /\ pending' = [ pending EXCEPT ![o] = @ - 1 ]
    /\ UNCHANGED << log, now, restarts, loading, before >>

\* lifespan yields: the restored process starts to serve.
Serve ==
    /\ loading /\ pending = NoRows
    /\ loading' = FALSE /\ before' = NoVerdicts
    /\ UNCHANGED << tracked, log, now, restarts, pending >>

Tick ==
    /\ now < MaxTime
    /\ now' = now + 1
    /\ UNCHANGED << tracked, log, restarts, loading, pending, before >>

\* Times a webhook of now may carry.
EventTimes == { t \in 0 .. now : t >= now - Lag }

Next ==
    \/ \E k \in Keys, ok \in BOOLEAN, at \in EventTimes : Observe(k, ok, at)
    \/ \E k \in Keys, t \in EventTimes : Snapshot(k, t)
    \/ DegradedSnapshots
    \/ Restart
    \/ \E o \in Rows : Replay(o)
    \/ Serve
    \/ Tick

Spec == Init /\ [][Next]_vars

-----------------------------------------------------------------------------
(* Properties *)

\* "A long tail of rare issuers cannot grow without bound": never more than
\* MaxKeys windows, one per tracked key and none for the others.
MemoryBounded ==
    /\ Len(tracked.order) <= MaxKeys
    /\ IsInjective(tracked.order)
    /\ \A k \in Keys : tracked.window[k] # << >> => k \in ToSet(tracked.order)

CountOf(w, o) == Cardinality({ i \in DOMAIN w : w[i] = o })

\* Late webhooks trim with their own, earlier clock, reads with another, and
\* a restart reorders: still, the window of a key that was not evicted holds
\* exactly the durable observations of the last Window, each as often as it
\* was made, but for those that a restart has yet to replay.
NothingRecentForgotten ==
    \A o \in Rows : o.key \notin tracked.gone /\ o.at >= now - Window =>
        CountOf(tracked.window[o.key], o) + pending[o] = log[o]

\* _trim looks only at the head, so late webhooks can hide expired outcomes
\* behind a newer one; but a verdict never counts an outcome more than Lag
\* older than the window.
StaleBounded ==
    \A k \in Keys : \A o \in ToSet(Trim(tracked.window[k], now)) :
        o.at >= now - Window - Lag

\* "Outage detection survives a restart": unless the verdict rested on hidden
\* expired outcomes, or the key is evicted, the restored process has it again.
RestartKeepsVerdict ==
    loading /\ pending = NoRows =>
        \A k \in before.firm \ tracked.gone :
            Degraded(tracked.window[k]) <=> k \in before.degraded

=============================================================================
