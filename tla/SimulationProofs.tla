-------------------------- MODULE SimulationProofs --------------------------
(***************************************************************************)
(* The benchmark, for every number of payments, every horizon and every    *)
(* policy: what the world gives each policy, and that the engine's books   *)
(* and the world's tell the same story.                                    *)
(***************************************************************************)
EXTENDS Simulation, CaseProofs, FiniteSetTheorems, WellFoundedInduction

-----------------------------------------------------------------------------
(* The payments of the world *)

Latents ==
    [ cause : Causes, failed : Nat, clear : Nat \cup { Never },
      sameOk : BOOLEAN, consentOk : BOOLEAN, code : FailureCodes \cup { "none" },
      contacts : Nat, attempts : Nat, optedOut : BOOLEAN, resolved : BOOLEAN,
      recovered : Nat \cup { Never }, natural : BOOLEAN,
      pending : Nat \cup { Never }, last : Nat \cup { Never }, rolled : Int,
      closed : Nat \cup { Never } ]

\* What no action changes.
Fixed(l, m) ==
    /\ m \in Latents
    /\ m.cause = l.cause /\ m.failed = l.failed /\ m.clear = l.clear
    /\ m.sameOk = l.sameOk /\ m.consentOk = l.consentOk /\ m.code = l.code

\* What looking at a payment does not change.
Untouched(l, m) == m.contacts = l.contacts /\ m.attempts = l.attempts

Status(l, m) ==
    /\ m.optedOut = l.optedOut /\ m.resolved = l.resolved /\ m.closed = l.closed
    /\ m.recovered = l.recovered /\ m.natural = l.natural

Clock(l, m) == m.last = l.last /\ m.rolled = l.rolled

\* A recovery sets its moment and leaves the rest alone.
LEMMA RecoveredFields ==
  ASSUME NEW l \in Latents, NEW t \in Nat, NEW b \in BOOLEAN
  PROVE  LET m == Recovered(l, t, b)
         IN /\ Fixed(l, m) /\ Untouched(l, m) /\ Clock(l, m) /\ m.pending = l.pending
            /\ m.optedOut = l.optedOut /\ m.closed = l.closed
            /\ m.resolved /\ m.recovered = t /\ m.natural = b
  <1> DEFINE m == Recovered(l, t, b)
  <1>1. m \in Latents
    BY DEF Recovered, Latents
  <1>2. /\ m.cause = l.cause /\ m.failed = l.failed /\ m.clear = l.clear
        /\ m.sameOk = l.sameOk /\ m.consentOk = l.consentOk /\ m.code = l.code
        /\ m.contacts = l.contacts /\ m.attempts = l.attempts
        /\ m.last = l.last /\ m.rolled = l.rolled /\ m.pending = l.pending
        /\ m.optedOut = l.optedOut /\ m.closed = l.closed
        /\ m.resolved /\ m.recovered = t /\ m.natural = b
    BY DEF Recovered, Latents
  <1> HIDE DEF m
  <1>3. QED
    BY <1>1, <1>2 DEF Fixed, Untouched, Clock, m

\* A look moves the clock of the draws.
LEMMA LookedFields ==
  ASSUME NEW l \in Latents, NEW t \in Nat
  PROVE  LET m == Looked(l, t)
         IN /\ Fixed(l, m) /\ Untouched(l, m) /\ Status(l, m) /\ m.pending = l.pending
            /\ m.last = t /\ m.rolled = l.rolled + (t - LastLook(l))
  <1> DEFINE x == l.rolled + (t - LastLook(l))
             m == [ l EXCEPT !.last = t, !.rolled = x ]
  <1>1. x \in Int
    BY DEF LastLook, Latents
  <1>2. Looked(l, t) = m
    BY DEF Looked
  <1> HIDE DEF x
  <1>3. /\ Fixed(l, m) /\ Untouched(l, m) /\ Status(l, m) /\ m.pending = l.pending
        /\ m.last = t /\ m.rolled = x
    BY <1>1 DEF Latents, Fixed, Untouched, Status
  <1>4. QED
    BY <1>2, <1>3 DEF x

\* The consent requests of apply() and their answers.
Ignored(l) == [ l EXCEPT !.pending = Never ]
Touched(l) == [ l EXCEPT !.contacts = @ + 1 ]
Engaged(l, t) == [ l EXCEPT !.pending = t + Day ]
OptsOut(l) == [ l EXCEPT !.optedOut = TRUE, !.resolved = TRUE ]
GivenUp(l, t) == [ l EXCEPT !.resolved = TRUE, !.closed = t ]
Tried(l) == [ l EXCEPT !.attempts = @ + 1 ]

\* What they change.
LEMMA AskedFields ==
  ASSUME NEW l \in Latents, NEW t \in Nat
  PROVE  /\ LET m == Ignored(l)
            IN /\ Fixed(l, m) /\ Untouched(l, m) /\ Status(l, m) /\ Clock(l, m)
               /\ m.pending = Never
         /\ LET m == Touched(l)
            IN /\ Fixed(l, m) /\ Status(l, m) /\ Clock(l, m) /\ m.pending = l.pending
               /\ m.contacts = l.contacts + 1 /\ m.attempts = l.attempts
         /\ LET m == Engaged(l, t)
            IN /\ Fixed(l, m) /\ Untouched(l, m) /\ Status(l, m) /\ Clock(l, m)
               /\ m.pending = t + Day
  <1>1. LET m == Ignored(l)
        IN /\ Fixed(l, m) /\ Untouched(l, m) /\ Status(l, m) /\ Clock(l, m)
           /\ m.pending = Never
    BY DEF Ignored, Latents, Fixed, Untouched, Status, Clock
  <1>2. LET m == Touched(l)
        IN /\ Fixed(l, m) /\ Status(l, m) /\ Clock(l, m) /\ m.pending = l.pending
           /\ m.contacts = l.contacts + 1 /\ m.attempts = l.attempts
    BY DEF Touched, Latents, Fixed, Status, Clock
  <1>3. LET m == Engaged(l, t)
        IN /\ Fixed(l, m) /\ Untouched(l, m) /\ Status(l, m) /\ Clock(l, m)
           /\ m.pending = t + Day
    BY WorldAssumption DEF Engaged, Latents, Fixed, Untouched, Status, Clock
  <1>4. QED
    BY <1>1, <1>2, <1>3

\* An opt-out, a policy that gives up and a retry.
LEMMA ClosedFields ==
  ASSUME NEW l \in Latents, NEW t \in Nat
  PROVE  /\ LET m == OptsOut(l)
            IN /\ Fixed(l, m) /\ Untouched(l, m) /\ Clock(l, m) /\ m.pending = l.pending
               /\ m.optedOut /\ m.resolved /\ m.closed = l.closed
               /\ m.recovered = l.recovered /\ m.natural = l.natural
         /\ LET m == GivenUp(l, t)
            IN /\ Fixed(l, m) /\ Untouched(l, m) /\ Clock(l, m) /\ m.pending = l.pending
               /\ m.optedOut = l.optedOut /\ m.resolved /\ m.closed = t
               /\ m.recovered = l.recovered /\ m.natural = l.natural
         /\ LET m == Tried(l)
            IN /\ Fixed(l, m) /\ Status(l, m) /\ Clock(l, m) /\ m.pending = l.pending
               /\ m.contacts = l.contacts /\ m.attempts = l.attempts + 1
  <1>1. LET m == OptsOut(l)
        IN /\ Fixed(l, m) /\ Untouched(l, m) /\ Clock(l, m) /\ m.pending = l.pending
           /\ m.optedOut /\ m.resolved /\ m.closed = l.closed
           /\ m.recovered = l.recovered /\ m.natural = l.natural
    BY DEF OptsOut, Latents, Fixed, Untouched, Clock
  <1>2. LET m == GivenUp(l, t)
        IN /\ Fixed(l, m) /\ Untouched(l, m) /\ Clock(l, m) /\ m.pending = l.pending
           /\ m.optedOut = l.optedOut /\ m.resolved /\ m.closed = t
           /\ m.recovered = l.recovered /\ m.natural = l.natural
    BY DEF GivenUp, Latents, Fixed, Untouched, Clock
  <1>3. LET m == Tried(l)
        IN /\ Fixed(l, m) /\ Status(l, m) /\ Clock(l, m) /\ m.pending = l.pending
           /\ m.contacts = l.contacts /\ m.attempts = l.attempts + 1
    BY DEF Tried, Latents, Fixed, Status, Clock
  <1>4. QED
    BY <1>1, <1>2, <1>3


\* A retry recovered it.
ByRetry(l) == l.recovered # Never /\ ~l.natural /\ l.contacts = 0

-----------------------------------------------------------------------------
(* What is always true of a payment *)

\* What _build and the acquirer's table promise of a payment.
WellBuilt(l) ==
    /\ l.cause = "risk_blocked" => ~l.consentOk
    /\ l.code \in RiskFailures => l.cause = "risk_blocked"

\* What the world makes impossible has not happened to l.
Possible(l) ==
    l.recovered # Never =>
        /\ l.clear = Never => l.cause \notin { "insufficient_funds", "issuer_outage" }
        /\ l.cause \in { "insufficient_funds", "issuer_outage" } => l.clear <= l.recovered
        /\ l.cause \in { "instrument_dead", "mandate_cancelled" } =>
             l.contacts > 0 /\ l.consentOk
        /\ l.cause # "risk_blocked"

\* The draws cover the time from the failure to the last look, and nothing is
\* drawn for a customer who stays blocked.
WellRolled(l) ==
    /\ l.rolled = LastLook(l) - l.failed
    /\ l.last # Never => l.failed <= l.last /\ l.last <= Horizon
                         /\ BlockCleared(l, Horizon)

\* The customer was given the whole time, if they are entitled to it.
FullyRolled(l) ==
    l.recovered = Never /\ ~l.optedOut /\ l.closed # Horizon
    /\ BlockCleared(l, Horizon) /\ l.failed < Horizon => l.last = Horizon

\* A payment is open until it is recovered, lost to an opt-out or given up.
WellClosed(l) ==
    /\ l.resolved => FullyRolled(l) /\ (l.optedOut => l.recovered = Never)
    /\ ~l.resolved => l.recovered = Never /\ ~l.optedOut /\ l.closed = Never

Sound(l) ==
    /\ l \in Latents /\ WellBuilt(l) /\ Possible(l) /\ WellRolled(l) /\ WellClosed(l)
    /\ l.pending # Never => l.contacts > 0

\* The payments that _build makes are sound.
LEMMA WorldsAreSound ==
  ASSUME NEW l \in Worlds
  PROVE  /\ Sound(l) /\ ~l.resolved
         /\ l.contacts = 0 /\ l.attempts = 0 /\ l.recovered = Never
  <1> DEFINE f == l.failed
             q == l.cause
             D == { l.clear - f } \cap Nat
             S == IF q = "do_not_honour" THEN BOOLEAN ELSE { FALSE }
             B(g, clear, same, consent, code) ==
               [ cause |-> q, failed |-> g, clear |-> clear, sameOk |-> same,
                 consentOk |-> consent, code |-> code,
                 contacts |-> 0, attempts |-> 0, optedOut |-> FALSE,
                 resolved |-> FALSE, recovered |-> Never, natural |-> FALSE,
                 pending |-> Never, last |-> Never, rolled |-> 0,
                 closed |-> Never ]
             From(g) == { B(g, clear, same, consent, code) :
                            clear \in ClearTimes(q, g, D), same \in S,
                            consent \in ConsentTruth(q), code \in CodeForCause[q] }
  <1>1. q \in Causes /\ f \in Nat /\ l \in Built(q, { f }, D)
    BY WorldsAssumption
  <1> HIDE DEF D, f, q
  <1>2. PICK clear \in ClearTimes(q, f, D), same \in S, consent \in ConsentTruth(q),
             code \in CodeForCause[q] : l = B(f, clear, same, consent, code)
    <2>1. Built(q, { f }, D) = UNION { From(g) : g \in { f } }
      BY DEF Built
    <2> HIDE DEF From
    <2>2. l \in From(f)
      BY <1>1, <2>1
    <2> HIDE DEF B, S
    <2>3. QED
      BY <2>2 DEF From
  <1>3. clear \in Nat \cup { Never }
    BY <1>1, <1>2, WorldAssumption DEF ClearTimes, D, Never
  <1>4. /\ same \in BOOLEAN /\ consent \in BOOLEAN
        /\ q = "risk_blocked" => ~consent
    BY <1>2 DEF ConsentTruth
  <1>5. code \in FailureCodes \cup { "none" }
        /\ (code \in RiskFailures => q = "risk_blocked")
    BY <1>1, <1>2 DEF CodeForCause, Causes, FailureCodes, HardFailures, RiskFailures,
                      TransientFailures
  <1>6. l \in Latents
    <2> HIDE DEF S
    <2>1. B(f, clear, same, consent, code) \in Latents
      BY <1>1, <1>3, <1>4, <1>5 DEF Latents, Never
    <2> HIDE DEF B
    <2>2. QED
      BY <1>2, <2>1
  <1>7. /\ l.cause = q /\ l.failed = f
        /\ l.consentOk = consent /\ l.code = code /\ l.contacts = 0 /\ l.attempts = 0
        /\ l.optedOut = FALSE /\ l.resolved = FALSE /\ l.recovered = Never
        /\ l.pending = Never /\ l.last = Never /\ l.rolled = 0 /\ l.closed = Never
    BY <1>2
  <1>8. QED
    BY <1>1, <1>4, <1>5, <1>6, <1>7
       DEF Sound, WellBuilt, Possible, WellRolled, WellClosed, LastLook

\* A block that has cleared stays cleared, and depends on the build only.
LEMMA ClearedStays ==
  ASSUME NEW l \in Latents, NEW m, Fixed(l, m), NEW t \in Nat, NEW u \in Nat, t <= u,
         BlockCleared(l, t)
  PROVE  BlockCleared(m, u)
  BY DEF BlockCleared, Cleared, Fixed, Latents, Never

\* What nobody but the customer does: only the draw and a payment unprompted.
ByNature(l, m) ==
    /\ Fixed(l, m) /\ Untouched(l, m) /\ m.pending = l.pending
    /\ m.optedOut = l.optedOut /\ m.closed = l.closed
    /\ m.resolved <=> m.recovered # Never
    /\ m.recovered # Never => m.natural
    /\ Sound(m)

\* A look at an open payment, and a look that finds it paid.
LEMMA LookIsByNature ==
  ASSUME NEW l, Sound(l), ~l.resolved, NEW t \in Nat, l.failed <= t, t <= Horizon,
         BlockCleared(l, t)
  PROVE  /\ ByNature(l, Looked(l, t)) /\ Looked(l, t).last = t
         /\ SelfServes(l) => ByNature(l, Recovered(Looked(l, t), t, TRUE))
  <1> DEFINE m == Looked(l, t)
             b == TRUE
             n == Recovered(m, t, b)
  <1>0. l \in Latents /\ Horizon \in Nat
    BY WorldAssumption DEF Sound
  <1>1. /\ Fixed(l, m) /\ Untouched(l, m) /\ Status(l, m) /\ m.pending = l.pending
        /\ m.last = t /\ m.rolled = l.rolled + (t - LastLook(l))
    BY <1>0, LookedFields
  <1> HIDE DEF m
  <1>2. /\ Fixed(m, n) /\ Untouched(m, n) /\ Clock(m, n) /\ n.pending = m.pending
        /\ n.optedOut = m.optedOut /\ n.closed = m.closed
        /\ n.resolved /\ n.recovered = t /\ n.natural = TRUE
    <2>1. b \in BOOLEAN /\ b = TRUE
      OBVIOUS
    <2>2. m \in Latents
      BY <1>1 DEF Fixed
    <2> HIDE DEF b
    <2>3. QED
      BY <2>1, <2>2, RecoveredFields
  <1> HIDE DEF n
  <1>3. BlockCleared(m, Horizon) /\ BlockCleared(n, Horizon) /\ Fixed(l, n)
    <2>1. Fixed(l, n)
      BY <1>1, <1>2 DEF Fixed
    <2>2. QED
      BY <1>0, <1>1, <2>1, ClearedStays
  <1>4. t # Never /\ LastLook(l) \in Nat
    BY <1>0 DEF Never, LastLook, Latents
  <1>5. WellRolled(m) /\ WellRolled(n)
    <2>1. m.rolled = t - l.failed
      <3>1. l.rolled = LastLook(l) - l.failed /\ l.failed \in Nat
        BY <1>0 DEF Sound, WellRolled, Latents
      <3>2. QED
        BY <1>1, <1>4, <3>1
    <2>2. QED
      BY <1>1, <1>2, <1>3, <1>4, <2>1 DEF WellRolled, Fixed, Clock, LastLook
  <1>6. ByNature(l, m)
    BY <1>0, <1>1, <1>5 DEF ByNature, Sound, WellBuilt, Possible, WellClosed, Fixed,
                            Untouched, Status
  <1>7. ASSUME SelfServes(l) PROVE ByNature(l, n)
    <2>1. Possible(n)
      <3>1. /\ l.cause \notin { "instrument_dead", "mandate_cancelled", "risk_blocked" }
            /\ l.cause \in { "insufficient_funds", "issuer_outage" } =>
                 l.clear # Never /\ t >= l.clear
        BY <1>7 DEF SelfServes, BlockCleared, Cleared
      <3>2. n.cause = l.cause /\ n.clear = l.clear /\ n.recovered = t
        BY <1>2, <1>3 DEF Fixed
      <3>3. l.clear # Never => l.clear \in Nat
        BY <1>0 DEF Latents
      <3>4. QED
        BY <3>1, <3>2, <3>3 DEF Possible
    <2>2. WellClosed(n) /\ WellBuilt(n)
      BY <1>1, <1>2, <1>3, <1>4 DEF Sound, WellClosed, FullyRolled, WellBuilt, Fixed, Status
    <2>3. n.pending # Never => n.contacts > 0
      BY <1>1, <1>2 DEF Sound, Untouched
    <2>4. QED
      BY <1>1, <1>2, <1>3, <1>4, <1>5, <2>1, <2>2, <2>3
         DEF ByNature, Sound, Fixed, Untouched, Status
  <1>8. QED
    BY <1>1, <1>6, <1>7 DEF m, n

\* An open payment that is left alone.
LEMMA StillByNature ==
  ASSUME NEW l, Sound(l), ~l.resolved
  PROVE  ByNature(l, l)
  BY DEF ByNature, Sound, WellClosed, Fixed, Untouched

\* A single look of the world.
LEMMA NaturalIsByNature ==
  ASSUME NEW l, Sound(l), ~l.resolved, NEW t \in Nat, l.failed <= t, t <= Horizon,
         NEW n \in Natural(l, t)
  PROVE  ByNature(l, n)
  <1>1. CASE l.optedOut \/ ~BlockCleared(l, t)
    BY <1>1, StillByNature DEF Natural
  <1>2. CASE ~l.optedOut /\ BlockCleared(l, t)
    <2>1. \/ n = Looked(l, t)
          \/ SelfServes(l) /\ n = Recovered(Looked(l, t), t, TRUE)
      BY <1>2 DEF Natural
    <2>2. QED
      BY <1>2, <2>1, LookIsByNature
  <1>3. QED
    BY <1>1, <1>2

\* The moments that a tail looks at, and what comes of the looks.
Looks(l, start) ==
    { m \in (start + 1) .. Horizon : /\ (m - start) % Day = 0 \/ m = Horizon
                                     /\ BlockCleared(l, m) }

\* The largest of some moments.
LEMMA MaxIs ==
  ASSUME NEW S, S \subseteq Int, NEW h \in S, \A m \in S : m <= h
  PROVE  Max(S) = h
  <1> DEFINE P(x) == x \in S /\ \A y \in S : x >= y
  <1>1. P(h)
    OBVIOUS
  <1>2. Max(S) = CHOOSE x : P(x)
    BY DEF Max
  <1>3. P(Max(S))
    BY <1>1, <1>2
  <1>4. \A x \in Int, y \in Int : x <= y /\ x >= y => x = y
    OBVIOUS
  <1>5. Max(S) \in Int /\ h \in Int /\ Max(S) <= h /\ Max(S) >= h
    BY <1>3
  <1>6. QED
    BY <1>4, <1>5

\* The smallest of some moments.
LEMMA SmallestIs ==
  ASSUME NEW S, S \subseteq Int, NEW h \in S, \A m \in S : h <= m
  PROVE  Min(S) = h
  <1> DEFINE P(x) == x \in S /\ \A y \in S : x <= y
  <1>1. P(h)
    OBVIOUS
  <1>2. Min(S) = CHOOSE x : P(x)
    BY DEF Min
  <1>3. P(Min(S))
    BY <1>1, <1>2
  <1>4. \A x \in Int, y \in Int : x <= y /\ y <= x => x = y
    OBVIOUS
  <1>5. Min(S) \in Int /\ h \in Int /\ Min(S) <= h /\ h <= Min(S)
    BY <1>3
  <1>6. QED
    BY <1>4, <1>5

\* A tail looks at the horizon, last, if it looks at all.
LEMMA LooksEndAtHorizon ==
  ASSUME NEW l, Sound(l), NEW start \in Nat
  PROVE  LET looks == Looks(l, start)
         IN /\ looks # {} <=> start < Horizon /\ BlockCleared(l, Horizon)
            /\ looks # {} => Max(looks) = Horizon
  <1> DEFINE looks == Looks(l, start)
  <1>1. l \in Latents /\ Fixed(l, l) /\ Horizon \in Nat
    BY WorldAssumption DEF Sound, Fixed
  <1>2. \A m \in looks : m \in Nat /\ start < m /\ m <= Horizon /\ BlockCleared(l, m)
    BY <1>1 DEF Looks
  <1>3. start < Horizon /\ BlockCleared(l, Horizon) => Horizon \in looks
    BY <1>1 DEF Looks
  <1> HIDE DEF looks
  <1>4. looks # {} => start < Horizon /\ BlockCleared(l, Horizon)
    <2> SUFFICES ASSUME NEW m \in looks
                 PROVE  start < Horizon /\ BlockCleared(l, Horizon)
      OBVIOUS
    <2>1. m \in Nat /\ start < m /\ m <= Horizon /\ BlockCleared(l, m)
      BY <1>2
    <2>2. BlockCleared(l, Horizon)
      BY <1>1, <2>1, ClearedStays
    <2>3. QED
      BY <1>1, <2>1, <2>2
  <1>5. Horizon \in looks => Max(looks) = Horizon
    <2>1. looks \subseteq Int /\ \A m \in looks : m <= Horizon
      BY <1>2
    <2>2. QED
      BY <2>1, MaxIs
  <1>6. QED
    BY <1>3, <1>4, <1>5 DEF looks

\* A tail: every look is a look, and the last one is at the horizon.
LEMMA TailIsByNature ==
  ASSUME NEW l, Sound(l), ~l.resolved, NEW start \in Nat, l.failed <= start,
         NEW n \in NaturalOver(l, start, Horizon)
  PROVE  /\ ByNature(l, n)
         /\ n.recovered = Never /\ BlockCleared(l, Horizon) /\ start < Horizon =>
              n.last = Horizon
  <1> DEFINE looks == Looks(l, start)
  <1>0. l \in Latents /\ Horizon \in Nat /\ ~l.optedOut
    BY WorldAssumption DEF Sound, WellClosed
  <1>1. /\ looks # {} <=> start < Horizon /\ BlockCleared(l, Horizon)
        /\ looks # {} => Max(looks) = Horizon
    BY LooksEndAtHorizon
  <1>2. \A m \in looks : m \in Nat /\ start < m /\ m <= Horizon /\ BlockCleared(l, m)
    BY <1>0 DEF Looks
  <1>3. n \in IF l.optedOut \/ looks = {} THEN { l }
              ELSE { Looked(l, Max(looks)) }
                   \cup { Recovered(Looked(l, m), m, TRUE) : m \in { x \in looks : SelfServes(l) } }
    BY DEF NaturalOver, Looks
  <1> HIDE DEF looks
  <1>4. CASE looks = {}
    BY <1>0, <1>1, <1>3, <1>4, StillByNature
  <1>5. CASE looks # {} /\ n = Looked(l, Horizon)
    <2>1. l.failed <= Horizon /\ Horizon <= Horizon /\ BlockCleared(l, Horizon)
      BY <1>0, <1>1, <1>5 DEF Latents
    <2>2. ByNature(l, Looked(l, Horizon)) /\ Looked(l, Horizon).last = Horizon
      BY <1>0, <2>1, LookIsByNature
    <2>3. QED
      BY <1>5, <2>2
  <1>6. CASE \E m \in looks : SelfServes(l) /\ n = Recovered(Looked(l, m), m, TRUE)
    <2>1. PICK m \in looks : SelfServes(l) /\ n = Recovered(Looked(l, m), m, TRUE)
      BY <1>6
    <2>2. m \in Nat /\ l.failed <= m /\ m <= Horizon /\ BlockCleared(l, m)
      BY <1>0, <1>2 DEF Latents
    <2>3. ByNature(l, n)
      BY <2>1, <2>2, LookIsByNature
    <2>4. n.recovered # Never
      <3>1. Looked(l, m) \in Latents
        BY <1>0, <2>2, LookedFields DEF Fixed
      <3>2. n.recovered = m
        BY <2>1, <2>2, <3>1, RecoveredFields
      <3>3. QED
        BY <2>2, <3>2 DEF Never
    <2>5. QED
      BY <2>3, <2>4
  <1>7. QED
    BY <1>0, <1>1, <1>3, <1>4, <1>5, <1>6

\* settle_to_horizon gives a payment the whole time.
LEMMA SettledIsSound ==
  ASSUME NEW l, Sound(l), NEW n \in SettledToHorizon(l)
  PROVE  /\ Sound(n) /\ FullyRolled(n) /\ Fixed(l, n) /\ Untouched(l, n)
         /\ n.optedOut = l.optedOut /\ (l.recovered # Never => n.recovered # Never)
  <1>1. CASE l.resolved
    BY <1>1 DEF SettledToHorizon, Sound, WellClosed, Fixed, Untouched
  <1>2. CASE ~l.resolved
    <2>0. l \in Latents /\ Horizon \in Nat
      BY WorldAssumption DEF Sound
    <2>1. LastLook(l) \in Nat /\ l.failed <= LastLook(l)
      BY <2>0 DEF Sound, WellRolled, LastLook, Latents
    <2>2. n \in NaturalOver(l, LastLook(l), Horizon)
      BY <1>2 DEF SettledToHorizon
    <2>3. /\ ByNature(l, n)
          /\ n.recovered = Never /\ BlockCleared(l, Horizon) /\ LastLook(l) < Horizon =>
               n.last = Horizon
      BY <1>2, <2>1, <2>2, TailIsByNature
    <2>4. BlockCleared(n, Horizon) <=> BlockCleared(l, Horizon)
      BY <2>3 DEF ByNature, Fixed, BlockCleared, Cleared
    <2>5. ASSUME n.recovered = Never, ~n.optedOut, BlockCleared(l, Horizon),
                 n.failed < Horizon
          PROVE  n.last = Horizon
      <3>1. CASE LastLook(l) < Horizon
        BY <2>3, <2>5, <3>1
      <3>2. CASE ~(LastLook(l) < Horizon)
        <4>1. l.last = Horizon
          BY <2>0, <2>1, <2>3, <2>5, <3>2 DEF LastLook, Sound, WellRolled, Latents, ByNature, Fixed
        <4>2. n = l
          <5>1. Looks(l, LastLook(l)) = {}
            BY <2>0, <2>1, <3>2 DEF Looks
          <5>2. QED
            BY <2>2, <5>1 DEF NaturalOver, Looks
        <4>3. QED
          BY <4>1, <4>2
      <3>3. QED
        BY <3>1, <3>2
    <2>6. QED
      BY <1>2, <2>3, <2>4, <2>5 DEF FullyRolled, ByNature, Sound, WellClosed
  <1>3. QED
    BY <1>1, <1>2

-----------------------------------------------------------------------------
(* What an action does to a payment *)

\* The link was paid.
Paid(l, t) == Ignored(Recovered(l, t, FALSE))

\* A request for consent that is waiting for its answer.
Settled(l, r) ==
    LET n == r.latent
    IN /\ Sound(n) /\ Fixed(l, n) /\ Untouched(l, n) /\ ~n.optedOut
       /\ r.kind \in { "nothing", "consent_ignored", "recovered" }
       /\ r.kind = "recovered" <=> n.recovered # Never
       /\ n.recovered # Never => n.resolved /\ n.contacts > 0

\* The answer to a request is no recovery, or one through a link.
LEMMA PendingIsSettled ==
  ASSUME NEW l, Sound(l), ~l.resolved, NEW t \in Nat
  PROVE  Settled(l, SettlePending(l, t))
  <1> DEFINE r == SettlePending(l, t)
             m == Recovered(l, t, FALSE)
             n == Ignored(m)
  <1>0. /\ l \in Latents /\ Fixed(l, l) /\ Untouched(l, l) /\ Horizon \in Nat
        /\ l.recovered = Never /\ ~l.optedOut /\ l.closed = Never
    BY WorldAssumption DEF Sound, Fixed, Untouched, WellClosed
  <1>1. \/ r = Result(l, "nothing")
        \/ r = Result(Ignored(l), "consent_ignored")
        \/ /\ l.pending # Never /\ l.consentOk /\ BlockCleared(l, t)
           /\ r = Result(n, "recovered")
    <2>1. l.pending \in Nat \cup { Never } /\ ~(Never >= t)
      BY <1>0 DEF Latents, Never
    <2>2. CASE l.pending = Never
      BY <2>1, <2>2 DEF SettlePending
    <2>3. CASE l.pending # Never /\ l.pending < t
      BY <2>1, <2>3 DEF SettlePending, Ignored
    <2>4. CASE l.pending # Never /\ ~(l.pending < t)
      BY <2>1, <2>4 DEF SettlePending, Ignored
    <2>5. QED
      BY <2>2, <2>3, <2>4
  <1>2. /\ Fixed(l, m) /\ Untouched(l, m) /\ Clock(l, m) /\ m.pending = l.pending
        /\ m.optedOut = l.optedOut /\ m.closed = l.closed
        /\ m.resolved /\ m.recovered = t
    BY <1>0, RecoveredFields
  <1> HIDE DEF m, r
  <1> SUFFICES Settled(l, r)
    BY DEF r
  <1>3. Fixed(m, n) /\ Untouched(m, n) /\ Status(m, n) /\ Clock(m, n) /\ n.pending = Never
    BY <1>2, AskedFields DEF Fixed
  <1> HIDE DEF n
  <1>4. CASE r = Result(l, "nothing")
    BY <1>0, <1>4 DEF Settled, Result
  <1>5. CASE r = Result(Ignored(l), "consent_ignored")
    <2> DEFINE i == Ignored(l)
    <2>1. Fixed(l, i) /\ Untouched(l, i) /\ Status(l, i) /\ Clock(l, i) /\ i.pending = Never
      BY <1>0, AskedFields
    <2>2. r.latent = i /\ r.kind = "consent_ignored"
      BY <1>5 DEF Result
    <2> HIDE DEF i
    <2>3. Sound(i)
      BY <1>0, <2>1 DEF Sound, WellBuilt, Possible, WellRolled, WellClosed, LastLook,
                        BlockCleared, Cleared, Fixed, Untouched, Status, Clock
    <2>4. QED
      BY <1>0, <2>1, <2>2, <2>3 DEF Settled, Status
  <1>6. ASSUME l.pending # Never, l.consentOk, BlockCleared(l, t), r = Result(n, "recovered")
        PROVE  Settled(l, r)
    <2>1. /\ Fixed(l, n) /\ Untouched(l, n) /\ Clock(l, n) /\ n.pending = Never
          /\ n.resolved /\ n.recovered = t /\ ~n.optedOut /\ t # Never
      BY <1>0, <1>2, <1>3 DEF Fixed, Untouched, Clock, Status, Never
    <2>2. r.latent = n /\ r.kind = "recovered"
      BY <1>6 DEF Result
    <2>3. l.contacts > 0
      BY <1>6 DEF Sound
    <2>4. Possible(n)
      <3>1. l.cause # "risk_blocked"
        BY <1>6 DEF Sound, WellBuilt
      <3>2. l.cause \in { "insufficient_funds", "issuer_outage" } =>
              l.clear # Never /\ t >= l.clear
        BY <1>6 DEF BlockCleared, Cleared
      <3>3. l.clear # Never => l.clear \in Nat
        BY <1>0 DEF Latents
      <3>4. l.clear # Never /\ t >= l.clear => l.clear <= t
        BY <3>3
      <3>5. QED
        BY <1>6, <2>1, <2>3, <3>1, <3>2, <3>4 DEF Possible, Fixed, Untouched
    <2>5. WellBuilt(n) /\ WellRolled(n) /\ WellClosed(n)
      BY <2>1 DEF Sound, WellBuilt, WellRolled, WellClosed, FullyRolled, LastLook,
                  BlockCleared, Cleared, Fixed, Clock
    <2>6. QED
      BY <2>1, <2>2, <2>3, <2>4, <2>5 DEF Settled, Sound, Fixed, Untouched
  <1>7. QED
    BY <1>1, <1>4, <1>5, <1>6

Kinds == { "nothing", "consent_ignored", "recovered", "abandoned", "attempt_failed",
           "opted_out" }

\* What came of an action and what the payment says are the same.
Faithful(l, n, kind) ==
    /\ Sound(n) /\ Fixed(l, n) /\ kind \in Kinds
    /\ kind = "recovered" <=> n.recovered # Never
    /\ kind = "opted_out" <=> n.optedOut
    /\ n.recovered # Never => n.resolved

\* Waiting and giving up: the customer is left alone.
LEMMA WaitedIsFaithful ==
  ASSUME NEW l, Sound(l), ~l.resolved, NEW t \in Nat, l.failed <= t, t <= Horizon,
         NEW r \in Waited(l, t)
  PROVE  LET n == r.latent
         IN /\ Faithful(l, n, r.kind) /\ Untouched(l, n) /\ ~n.optedOut
            /\ r.kind # "attempt_failed" /\ ~ByRetry(n)
  <1> DEFINE n == r.latent
  <1>1. PICK m \in Natural(l, t) :
           r = IF m.resolved THEN Result(m, "recovered") ELSE SettlePending(m, t)
    BY DEF Waited
  <1>2. ByNature(l, m) /\ ~l.optedOut
    BY <1>1, NaturalIsByNature DEF Sound, WellClosed
  <1>3. CASE m.resolved
    <2>1. n = m /\ r.kind = "recovered"
      BY <1>1, <1>3 DEF Result
    <2>2. QED
      BY <1>2, <1>3, <2>1 DEF ByNature, Faithful, Kinds, ByRetry
  <1>4. CASE ~m.resolved
    <2>1. Settled(m, r)
      BY <1>1, <1>2, <1>4, PendingIsSettled DEF ByNature
    <2>2. n.contacts > 0 => n.contacts # 0
      BY <2>1 DEF Settled, Sound, Latents
    <2>3. Sound(n) /\ Fixed(m, n) /\ Untouched(m, n) /\ ~n.optedOut
      BY <2>1 DEF Settled
    <2>4. Fixed(l, n) /\ Untouched(l, n)
      BY <1>2, <2>3 DEF Fixed, Untouched, ByNature
    <2>5. QED
      BY <2>1, <2>2, <2>3, <2>4 DEF Settled, Faithful, Kinds, ByRetry
  <1>5. QED
    BY <1>3, <1>4

\* Giving a payment up is faithful: it closes it and bothers nobody.
LEMMA AbandonedIsFaithful ==
  ASSUME NEW l, Sound(l), ~l.resolved, NEW t \in Nat, l.failed <= t, t <= Horizon,
         NEW r \in Abandoned(l, t)
  PROVE  LET n == r.latent
         IN /\ Faithful(l, n, r.kind) /\ Untouched(l, n) /\ ~n.optedOut
            /\ r.kind # "attempt_failed" /\ ~ByRetry(n) /\ n.resolved
  <1> DEFINE n == r.latent
  <1>1. PICK m \in NaturalOver(l, t, Horizon) :
           r = Result(GivenUp(m, t), KindOf(m, "abandoned"))
    BY DEF Abandoned, GivenUp
  <1>2. /\ ByNature(l, m) /\ ~l.optedOut
        /\ m.recovered = Never /\ BlockCleared(l, Horizon) /\ t < Horizon => m.last = Horizon
    BY <1>1, TailIsByNature DEF Sound, WellClosed
  <1>3. n = GivenUp(m, t) /\ r.kind = KindOf(m, "abandoned")
    BY <1>1 DEF Result
  <1>4. /\ Fixed(m, n) /\ Untouched(m, n) /\ Clock(m, n) /\ n.pending = m.pending
        /\ n.optedOut = m.optedOut /\ n.resolved /\ n.closed = t
        /\ n.recovered = m.recovered /\ n.natural = m.natural
    <2>1. m \in Latents
      BY <1>2 DEF ByNature, Fixed
    <2> HIDE DEF n
    <2>2. QED
      BY <1>3, <2>1, ClosedFields
  <1> HIDE DEF n
  <1>5. Fixed(l, n) /\ Untouched(l, n) /\ ~n.optedOut
    BY <1>2, <1>4 DEF ByNature, Fixed, Untouched
  <1>6. FullyRolled(n)
    <2>1. Horizon \in Nat /\ (t # Horizon => t < Horizon)
      BY WorldAssumption
    <2>2. BlockCleared(n, Horizon) <=> BlockCleared(l, Horizon)
      BY <1>5 DEF BlockCleared, Cleared, Fixed
    <2>3. QED
      BY <1>2, <1>4, <2>1, <2>2 DEF FullyRolled, Clock
  <1>7. Sound(n)
    BY <1>2, <1>4, <1>5, <1>6
       DEF ByNature, Sound, WellBuilt, Possible, WellRolled, WellClosed, LastLook,
           BlockCleared, Cleared, Fixed, Untouched, Clock
  <1>8. QED
    BY <1>2, <1>3, <1>4, <1>5, <1>7 DEF Faithful, KindOf, Kinds, ByRetry, ByNature, n

\* A retry: an attempt more, and the money or not.
LEMMA RetriedIsFaithful ==
  ASSUME NEW l, Sound(l), ~l.resolved, NEW t \in Nat, l.failed <= t, t <= Horizon,
         NEW r \in Retried(l, t)
  PROVE  LET n == r.latent
         IN /\ Faithful(l, n, r.kind) /\ ~n.optedOut /\ n.contacts = l.contacts
            /\ n.attempts = l.attempts + 1
            /\ IF r.kind = "recovered" THEN ~n.natural ELSE r.kind = "attempt_failed"
            /\ r.kind = "attempt_failed" => ~n.resolved
  <1> DEFINE m == Tried(l)
             k == Recovered(m, t, FALSE)
  <1>0. /\ l \in Latents /\ l.recovered = Never /\ ~l.optedOut /\ l.closed = Never
        /\ t # Never
    BY DEF Sound, WellClosed, Never
  <1>1. \/ WouldSucceed(l, t) /\ r = Result(k, "recovered")
        \/ r = Result(m, "attempt_failed")
    BY DEF Retried, Tried
  <1>2. /\ Fixed(l, m) /\ Status(l, m) /\ Clock(l, m) /\ m.pending = l.pending
        /\ m.contacts = l.contacts /\ m.attempts = l.attempts + 1
    BY <1>0, ClosedFields
  <1> HIDE DEF m
  <1>3. /\ Fixed(m, k) /\ Untouched(m, k) /\ Clock(m, k) /\ k.pending = m.pending
        /\ k.optedOut = m.optedOut /\ k.closed = m.closed
        /\ k.resolved /\ k.recovered = t /\ k.natural = FALSE
    BY <1>2, RecoveredFields DEF Fixed
  <1> HIDE DEF k
  <1>4. Sound(m)
    BY <1>0, <1>2 DEF Sound, WellBuilt, Possible, WellRolled, WellClosed, LastLook,
                      BlockCleared, Cleared, Fixed, Status, Clock
  <1>5. CASE r = Result(m, "attempt_failed")
    <2>1. r.latent = m /\ r.kind = "attempt_failed"
      BY <1>5 DEF Result
    <2>2. QED
      BY <1>0, <1>2, <1>4, <2>1 DEF Faithful, Kinds, Status
  <1>6. CASE WouldSucceed(l, t) /\ r = Result(k, "recovered")
    <2>1. r.latent = k /\ r.kind = "recovered"
      BY <1>6 DEF Result
    <2>2. /\ Fixed(l, k) /\ Clock(l, k) /\ k.contacts = l.contacts
          /\ k.attempts = l.attempts + 1 /\ k.pending = l.pending /\ ~k.optedOut
          /\ k.recovered = t /\ t # Never /\ k.resolved
      BY <1>0, <1>2, <1>3 DEF Fixed, Clock, Untouched, Status
    <2>3. Possible(k)
      <3>1. /\ l.cause \notin { "instrument_dead", "mandate_cancelled", "risk_blocked" }
            /\ l.cause \in { "insufficient_funds", "issuer_outage" } =>
                 l.clear # Never /\ t >= l.clear
        BY <1>0, <1>6 DEF WouldSucceed, Cleared, Latents, Causes
      <3>2. l.clear # Never => l.clear \in Nat
        BY <1>0 DEF Latents
      <3>3. l.clear # Never /\ t >= l.clear => l.clear <= t
        BY <3>2
      <3>4. QED
        BY <2>2, <3>1, <3>3 DEF Possible, Fixed
    <2>4. Sound(k)
      BY <2>2, <2>3 DEF Sound, WellBuilt, WellRolled, WellClosed, FullyRolled, LastLook,
                        BlockCleared, Cleared, Fixed, Clock
    <2>5. QED
      BY <1>3, <2>1, <2>2, <2>4 DEF Faithful, Kinds
  <1>7. QED
    BY <1>1, <1>5, <1>6

\* A request for consent: a contact more, and whatever the customer does.
LEMMA AskedIsFaithful ==
  ASSUME NEW l, Sound(l), ~l.resolved, NEW t \in Nat, l.failed <= t, t <= Horizon,
         NEW r \in Asked(l, t)
  PROVE  LET n == r.latent
         IN /\ Faithful(l, n, r.kind) /\ n.attempts = l.attempts
            /\ n.contacts = l.contacts + 1
            /\ r.kind # "attempt_failed"
  <1> DEFINE m == Touched(l)
             e == Engaged(m, t)
             o == OptsOut(m)
  <1>0. /\ l \in Latents /\ l.recovered = Never /\ ~l.optedOut /\ l.closed = Never
    BY DEF Sound, WellClosed
  <1>1. \/ r = Result(m, "consent_ignored")
        \/ r = SettlePending(e, t)
        \/ r = Result(o, "opted_out")
    BY DEF Asked, Touched, Engaged, OptsOut
  <1>2. /\ Fixed(l, m) /\ Status(l, m) /\ Clock(l, m) /\ m.pending = l.pending
        /\ m.contacts = l.contacts + 1 /\ m.attempts = l.attempts
    BY <1>0, AskedFields
  <1> HIDE DEF m
  <1>3. /\ Fixed(m, e) /\ Untouched(m, e) /\ Status(m, e) /\ Clock(m, e)
        /\ e.pending = t + Day
    BY <1>2, AskedFields DEF Fixed
  <1>4. /\ Fixed(m, o) /\ Untouched(m, o) /\ Clock(m, o) /\ o.pending = m.pending
        /\ o.optedOut /\ o.resolved /\ o.closed = m.closed
        /\ o.recovered = m.recovered /\ o.natural = m.natural
    BY <1>2, ClosedFields DEF Fixed
  <1> HIDE DEF e, o
  <1>5. m.contacts > 0 /\ m.contacts \in Nat
    BY <1>0, <1>2 DEF Latents
  <1>6. Sound(m)
    BY <1>0, <1>2, <1>5
       DEF Sound, WellBuilt, Possible, WellRolled, WellClosed, LastLook,
           BlockCleared, Cleared, Fixed, Status, Clock
  <1>7. CASE r = Result(m, "consent_ignored")
    <2>1. r.latent = m /\ r.kind = "consent_ignored"
      BY <1>7 DEF Result
    <2>2. QED
      BY <1>0, <1>2, <1>6, <2>1 DEF Faithful, Kinds, Status
  <1>8. CASE r = SettlePending(e, t)
    <2>1. Sound(e) /\ ~e.resolved
      BY <1>0, <1>2, <1>3, <1>5, <1>6
         DEF Sound, WellBuilt, Possible, WellRolled, WellClosed, LastLook,
             BlockCleared, Cleared, Fixed, Untouched, Status, Clock
    <2>2. Settled(e, r)
      BY <1>8, <2>1, PendingIsSettled
    <2>3. QED
      BY <1>2, <1>3, <2>2 DEF Settled, Faithful, Kinds, Fixed, Untouched
  <1>9. CASE r = Result(o, "opted_out")
    <2>1. r.latent = o /\ r.kind = "opted_out"
      BY <1>9 DEF Result
    <2>2. /\ Fixed(l, o) /\ Clock(l, o) /\ o.contacts > 0 /\ o.recovered = Never
          /\ o.contacts = l.contacts + 1 /\ o.attempts = l.attempts
      BY <1>0, <1>2, <1>4, <1>5 DEF Fixed, Clock, Untouched, Status
    <2>3. Sound(o)
      BY <1>4, <2>2 DEF Sound, WellBuilt, Possible, WellRolled, WellClosed, FullyRolled,
                        LastLook, BlockCleared, Cleared, Fixed, Clock
    <2>4. QED
      BY <1>4, <2>1, <2>2, <2>3 DEF Faithful, Kinds
  <1>10. QED
    BY <1>1, <1>7, <1>8, <1>9

Actions == { "wait", "abandon", "retry", "request_consent" }

\* What an action adds to the counters of the payment and to the two books.
Effect(l, action, n, kind) ==
    /\ Faithful(l, n, kind)
    /\ n.contacts = l.contacts + (IF action = "request_consent" THEN 1 ELSE 0)
    /\ n.attempts = l.attempts + (IF action = "retry" THEN 1 ELSE 0)
    /\ kind = "opted_out" => action = "request_consent"
    /\ kind = "attempt_failed" => action = "retry" /\ ~n.resolved
    /\ action = "retry" => IF kind = "recovered" THEN ~n.natural ELSE kind = "attempt_failed"
    /\ action # "retry" => ~ByRetry(n)
    /\ action = "abandon" => n.resolved

\* Every outcome that _apply_action may draw has the effect its action allows.
LEMMA ApplyEffect ==
  ASSUME NEW l, Sound(l), ~l.resolved, NEW t \in Nat, l.failed <= t, t <= Horizon,
         NEW action \in Actions, NEW r \in Apply(l, action, t)
  PROVE  Effect(l, action, r.latent, r.kind)
  <1>0. l.contacts \in Nat /\ l.attempts \in Nat
    BY DEF Sound, Latents
  <1>1. CASE action = "wait"
    <2>1. r \in Waited(l, t)
      BY <1>1 DEF Apply
    <2>2. /\ Faithful(l, r.latent, r.kind) /\ Untouched(l, r.latent) /\ ~r.latent.optedOut
          /\ r.kind # "attempt_failed" /\ ~ByRetry(r.latent)
      BY <2>1, WaitedIsFaithful
    <2>3. QED
      BY <1>0, <1>1, <2>2 DEF Effect, Faithful, Untouched
  <1>2. CASE action = "abandon"
    <2>1. r \in Abandoned(l, t)
      BY <1>2 DEF Apply
    <2>2. /\ Faithful(l, r.latent, r.kind) /\ Untouched(l, r.latent) /\ ~r.latent.optedOut
          /\ r.kind # "attempt_failed" /\ ~ByRetry(r.latent) /\ r.latent.resolved
      BY <2>1, AbandonedIsFaithful
    <2>3. QED
      BY <1>0, <1>2, <2>2 DEF Effect, Faithful, Untouched
  <1>3. CASE action = "retry"
    <2>1. r \in Retried(l, t)
      BY <1>3 DEF Apply
    <2>2. QED
      BY <1>0, <1>3, <2>1, RetriedIsFaithful DEF Effect, Faithful
  <1>4. CASE action = "request_consent"
    <2>1. r \in Asked(l, t)
      BY <1>4 DEF Apply
    <2>2. /\ Faithful(l, r.latent, r.kind) /\ r.latent.attempts = l.attempts
          /\ r.latent.contacts = l.contacts + 1 /\ r.kind # "attempt_failed"
      BY <2>1, AskedIsFaithful
    <2>3. ~ByRetry(r.latent)
      BY <1>0, <2>2 DEF ByRetry
    <2>4. QED
      BY <1>0, <1>4, <2>2, <2>3 DEF Effect
  <1>5. QED
    BY <1>1, <1>2, <1>3, <1>4 DEF Actions

-----------------------------------------------------------------------------
(* The heap and the rows *)

\* The smallest of some moments.
LEMMA MinIs ==
  ASSUME NEW S, S \subseteq Nat, S # {}
  PROVE  Min(S) \in S /\ \A y \in S : Min(S) <= y
  <1> DEFINE R == { ss \in Nat \X Nat : ss[1] < ss[2] }
             P(x) == x \in S /\ \A y \in S : x <= y
  <1>1. IsWellFoundedOn(R, Nat)
    BY NatLessThanWellFounded DEF OpToRel
  <1>2. PICK x \in S : \A y \in S : ~ (<< y, x >> \in R)
    <2> HIDE DEF R
    <2>1. QED
      BY <1>1, WFMin
  <1>3. \A y \in S : ~(y < x) /\ x \in Nat /\ y \in Nat
    BY <1>2
  <1>4. P(x)
    BY <1>3
  <1>5. Min(S) = CHOOSE z : P(z)
    BY DEF Min
  <1>6. P(Min(S))
    BY <1>4, <1>5
  <1>7. QED
    BY <1>6

\* The payment that run() wakes.
NextUp == CHOOSE p \in Queued : \A q \in Queued : Earlier(p, q)

\* The heap has a first element.
LEMMA NextUpIsQueued ==
  ASSUME wake \in [ Payments -> Nat \cup { Never } ], Queued # {}
  PROVE  NextUp \in Queued
  <1> DEFINE times == { wake[q] : q \in Queued }
             t == Min(times)
             ties == { q \in Queued : wake[q] = t }
             p == Min(ties)
             P(x) == x \in Queued /\ \A q \in Queued : Earlier(x, q)
  <1>1. \A q \in Queued : q \in Nat /\ wake[q] \in Nat
    BY SimulationAssumption DEF Queued
  <1>2. times \subseteq Nat /\ times # {}
    BY <1>1
  <1>3. t \in times /\ \A q \in Queued : t <= wake[q]
    <2>1. t \in times /\ \A y \in times : t <= y
      <3> HIDE DEF times
      <3>1. QED
        BY <1>2, MinIs
    <2>2. QED
      BY <2>1
  <1> HIDE DEF t
  <1>4. ties \subseteq Nat /\ ties # {}
    BY <1>1, <1>3
  <1>5. p \in ties /\ \A q \in ties : p <= q
    <2> HIDE DEF ties
    <2>1. QED
      BY <1>4, MinIs
  <1> HIDE DEF p
  <1>6. P(p)
    <2>1. p \in Queued /\ wake[p] = t
      BY <1>5
    <2> SUFFICES ASSUME NEW q \in Queued PROVE Earlier(p, q)
      BY <2>1
    <2>2. t <= wake[q] /\ t \in Nat /\ wake[q] \in Nat
      BY <1>1, <1>2, <1>3
    <2>3. wake[q] = t => p <= q
      BY <1>5
    <2>4. QED
      BY <2>1, <2>2, <2>3 DEF Earlier
  <1>7. NextUp = CHOOSE x : P(x)
    BY DEF NextUp
  <1>8. P(NextUp)
    BY <1>6, <1>7
  <1>9. QED
    BY <1>8

\* What the verdicts of the model may be.
VerdictsTyped == \A v \in cache : v[3] \in CanonicalCodes \cup { "none" }

\* The codes the model may answer are codes of the engine's tables.
LEMMA CanonicalAreCodes == CanonicalCodes \subseteq FailureCodes
  BY DEF CanonicalCodes, FailureCodes, HardFailures, RiskFailures, TransientFailures

\* A model is asked for a message it gave no verdict on, and its verdict kept.
LEMMA NormalisedIs ==
  ASSUME NEW answer \in Answers(normaliser, Labels), VerdictsTyped,
         latent[current] \in Latents
  PROVE  LET n == Normalised(answer)
             l == latent[current]
         IN /\ n.label \in FailureCodes \cup { "none" }
            /\ n.calls \in Nat /\ n.errors \in Nat
            /\ \A v \in n.cache : v[3] \in CanonicalCodes \cup { "none" }
            /\ \/ n.cache = cache /\ n.calls = n.errors
               \/ /\ \A v \in cache : ~(v[1] = l.code /\ v[2] = l.cause)
                  /\ n.cache = cache \cup { << l.code, l.cause, Label(answer) >> }
                  /\ n.calls = 1 /\ n.errors = 0
            /\ IF normaliser = "passthrough" THEN n.label = l.code
               ELSE n.label \in CanonicalCodes \cup { "none" }
  <1> DEFINE n == Normalised(answer)
             l == latent[current]
             a == Label(answer)
             known == { v \in cache : v[1] = l.code /\ v[2] = l.cause }
             k == CHOOSE v \in known : TRUE
  <1>1. a \in CanonicalCodes \cup { "none" }
    <2>1. answer.label \in Labels \cup { "none" }
      BY DEF Answers
    <2>2. QED
      BY <2>1, SimulationAssumption DEF Label
  <1>2. l.code \in FailureCodes \cup { "none" }
    BY DEF Latents
  <1>3. known # {} => k[3] \in CanonicalCodes \cup { "none" }
    <2>1. known # {} => k \in known
      OBVIOUS
    <2>2. QED
      BY <2>1 DEF VerdictsTyped
  <1>4. \/ normaliser = "passthrough"
           /\ n = [ label |-> l.code, cache |-> cache, calls |-> 0, errors |-> 0 ]
        \/ /\ normaliser # "passthrough" /\ l.code \in CanonicalCodes
           /\ n = [ label |-> l.code, cache |-> cache, calls |-> 0, errors |-> 0 ]
        \/ /\ normaliser # "passthrough"
           /\ \/ n = [ label |-> "none", cache |-> cache, calls |-> 0, errors |-> 0 ]
              \/ known # {} /\ n = [ label |-> k[3], cache |-> cache, calls |-> 0, errors |-> 0 ]
              \/ known = {} /\ n = [ label |-> a,
                     cache |-> IF Verdict(answer) THEN cache \cup { << l.code, l.cause, a >> }
                               ELSE cache,
                     calls |-> 1,
                     errors |-> IF answer.kind = "unreachable" THEN 1 ELSE 0 ]
    <2> HIDE DEF l, a
    <2>1. n = IF normaliser = "passthrough"
              THEN [ label |-> l.code, cache |-> cache, calls |-> 0, errors |-> 0 ]
              ELSE Normalise(normaliser, cache, l.code, l.cause, answer)
      BY DEF Normalised, l
    <2>2. Normalise(normaliser, cache, l.code, l.cause, answer)
          = CASE l.code \in CanonicalCodes ->
                   [ label |-> l.code, cache |-> cache, calls |-> 0, errors |-> 0 ]
              [] l.code \notin CanonicalCodes /\ normaliser = "none" ->
                   [ label |-> "none", cache |-> cache, calls |-> 0, errors |-> 0 ]
              [] l.code \notin CanonicalCodes /\ normaliser # "none" /\ known # {} ->
                   [ label |-> k[3], cache |-> cache, calls |-> 0, errors |-> 0 ]
              [] OTHER ->
                   [ label |-> a,
                     cache |-> IF Verdict(answer) THEN cache \cup { << l.code, l.cause, a >> }
                               ELSE cache,
                     calls |-> 1,
                     errors |-> IF answer.kind = "unreachable" THEN 1 ELSE 0 ]
      BY DEF Normalise, a
    <2> HIDE DEF n, known, k
    <2>3. QED
      BY <2>1, <2>2
  <1>5. Verdict(answer) <=> answer.kind # "unreachable"
    BY DEF Verdict
  <1> HIDE DEF n, l, a, k
  <1>6. /\ n.label \in FailureCodes \cup { "none" }
        /\ n.calls \in Nat /\ n.errors \in Nat
    BY <1>1, <1>2, <1>3, <1>4, CanonicalAreCodes
  <1>7. \/ n.cache = cache /\ n.calls = n.errors
        \/ /\ known = {} /\ n.cache = cache \cup { << l.code, l.cause, a >> }
           /\ n.calls = 1 /\ n.errors = 0
    BY <1>4, <1>5
  <1>8. \A v \in n.cache : v[3] \in CanonicalCodes \cup { "none" }
    BY <1>1, <1>7 DEF VerdictsTyped
  <1>9. IF normaliser = "passthrough" THEN n.label = l.code
        ELSE n.label \in CanonicalCodes \cup { "none" }
    BY <1>1, <1>3, <1>4
  <1>10. QED
    BY <1>6, <1>7, <1>8, <1>9 DEF n, l, a

\* The decisions of the dispatch are decisions.
LEMMA TickDecisions ==
  ASSUME NEW t \in Nat, NEW c \in CaseRecords
  PROVE  /\ CooldownOutcomes(t) \subseteq Decisions
         /\ RetryOutcome(c, ContactBlocked(c, t)) \in Decisions
         /\ ContactBlocked(c, t) # "none" => Refusal(ContactBlocked(c, t)) \in Decisions
  <1>0. /\ Cooldown \in Nat /\ ReleaseJitter \in Nat /\ RetryEscalation \in Nat
    BY DurationsAssumption
  <1>1. ASSUME NEW u \in Nat
        PROVE  /\ Decision("cooldown", "none", u) \in Decisions
               /\ Decision("retry_scheduled", "none", u) \in Decisions
    BY DEF Decision, Decisions, States, Reasons, Time
  <1>2. ASSUME NEW d \in CooldownOutcomes(t) PROVE d \in Decisions
    <2>1. CASE d \in { Decision("cooldown", "none", t + Cooldown),
                       Decision("cooldown", "none", t + ReleaseJitter) }
      BY <1>0, <1>1, <2>1
    <2>2. CASE \E o \in 0 .. (IF ReleaseJitter = 0 THEN 0 ELSE ReleaseJitter - 1) :
                 d = Decision("retry_scheduled", "none", t + RetryEscalation + o)
      BY <1>0, <1>1, <2>2
    <2>3. QED
      BY <2>1, <2>2 DEF CooldownOutcomes
  <1>3. ContactBlocked(c, t) \in { "none", "customer_opted_out",
                                   "contact_budget_exhausted", "contact_cooldown_active" }
    BY DEF ContactBlocked
  <1>4. ASSUME NEW b \in { "none", "customer_opted_out", "contact_budget_exhausted",
                           "contact_cooldown_active" }
        PROVE  b # "none" => Refusal(b) \in Decisions
    BY DEF Refusal, Decision, Decisions, States, Reasons
  <1>5. /\ Decision("manual_review", "retry_attempts_exhausted", NoTime) \in Decisions
        /\ Decision("consent_required", "none", NoTime) \in Decisions
    BY DEF Decision, Decisions, States, Reasons
  <1>6. QED
    BY <1>2, <1>3, <1>4, <1>5 DEF RetryOutcome

\* Where the timer of a case leads, and then its link.
Timed(c, cooled) ==
    CASE c.state = "cooldown" /\ Due(c) -> Committed(c, cooled)
      [] c.state = "retry_scheduled" /\ Due(c) ->
           Committed(c, RetryOutcome(c, ContactBlocked(c, now)))
      [] OTHER -> c

\* The dispatch tick on one row: a timer, then a link if one is due.
LEMMA DispatchedIs ==
  ASSUME NEW c, NEW cooled
  PROVE  LET p == Timed(c, cooled)
             d == Dispatched(c, cooled)
         IN /\ p.state # "consent_required" => d = p
            /\ p.state = "consent_required" =>
                 d = IF ContactBlocked(p, now) # "none"
                     THEN Committed(p, Refusal(ContactBlocked(p, now)))
                     ELSE LinkSent(p, 1, now)
  <1> DEFINE p == Timed(c, cooled)
             d == Dispatched(c, cooled)
  <1>1. d = CASE p.state # "consent_required" -> p
              [] p.state = "consent_required" /\ ContactBlocked(p, now) # "none" ->
                   Committed(p, Refusal(ContactBlocked(p, now)))
              [] OTHER -> LinkSent(p, 1, now)
    BY DEF Dispatched, Timed
  <1> HIDE DEF d, p
  <1>2. QED
    BY <1>1 DEF d, p

\* The dispatch tick keeps a row well formed.
LEMMA DispatchedType ==
  ASSUME now \in Nat, NEW c \in CaseRecords, NEW cooled \in CooldownOutcomes(now)
  PROVE  Timed(c, cooled) \in CaseRecords /\ Dispatched(c, cooled) \in CaseRecords
  <1> DEFINE p == Timed(c, cooled)
  <1>1. p \in CaseRecords
    BY TickDecisions, CommittedType DEF Timed
  <1> HIDE DEF p
  <1>2. CASE p.state # "consent_required"
    BY <1>1, <1>2, DispatchedIs DEF p
  <1>3. CASE p.state = "consent_required" /\ ContactBlocked(p, now) # "none"
    <2>1. Committed(p, Refusal(ContactBlocked(p, now))) \in CaseRecords
      BY <1>1, <1>3, TickDecisions, CommittedType
    <2>2. QED
      BY <1>1, <1>3, <2>1, DispatchedIs DEF p
  <1>4. CASE p.state = "consent_required" /\ ContactBlocked(p, now) = "none"
    <2>1. LinkSent(p, 1, now) \in CaseRecords
      BY <1>1, LinkSentType DEF Time
    <2>2. QED
      BY <1>1, <1>4, <2>1, DispatchedIs DEF p
  <1>5. QED
    BY <1>2, <1>3, <1>4

\* An opt-out stops the case or leaves it.
LEMMA OptedOutType ==
  ASSUME NEW c \in CaseRecords
  PROVE  /\ OptedOut(c) \in CaseRecords
         /\ OptedOut(c).attempts = c.attempts /\ OptedOut(c).contacts = c.contacts
         /\ OptedOut(c).code = c.code /\ OptedOut(c).optout = c.optout
         /\ OptedOut(c) = c \/ OptedOut(c).state = "stopped"
  <1> DEFINE s == [ c EXCEPT !.state = "stopped", !.reason = "customer_opted_out",
                             !.due = NoTime ]
             d == [ c EXCEPT !.state = "stopped" ]
             r == [ d EXCEPT !.reason = "customer_opted_out" ]
  <1>1. d \in CaseRecords /\ d.state = "stopped" /\ d.attempts = c.attempts
        /\ d.contacts = c.contacts /\ d.code = c.code /\ d.optout = c.optout
    BY DEF CaseRecords, States
  <1>2. s = [ r EXCEPT !.due = NoTime ]
    OBVIOUS
  <1>3. OptedOut(c) \in { c, s }
    BY DEF OptedOut
  <1> HIDE DEF d, s
  <1>4. r \in CaseRecords /\ r.state = "stopped" /\ r.attempts = c.attempts
        /\ r.contacts = c.contacts /\ r.code = c.code /\ r.optout = c.optout
    BY <1>1 DEF CaseRecords, Reasons
  <1> HIDE DEF r
  <1>5. s \in CaseRecords /\ s.state = "stopped" /\ s.attempts = c.attempts
        /\ s.contacts = c.contacts /\ s.code = c.code /\ s.optout = c.optout
    BY <1>2, <1>4 DEF CaseRecords
  <1>6. QED
    BY <1>3, <1>5

\* The adapter always wants something it can have.
LEMMA DecisionForType ==
  ASSUME NEW c \in CaseRecords, now \in Nat
  PROVE  /\ DecisionFor(c).action \in { "wait", "abandon", "request_consent" }
         /\ DecisionFor(c).after \in Int /\ WakeAfter(c) \in Int
  <1>1. Idle \in Int
    BY SimulationAssumption
  <1>2. WakeAfter(c) \in Int
    <2>1. ASSUME c.due # NoTime PROVE Max({ 1, Min({ Idle, c.due - now + 1 }) }) \in Int
      <3> DEFINE x == c.due - now + 1
                 y == IF Idle <= x THEN Idle ELSE x
                 z == IF 1 >= y THEN 1 ELSE y
      <3>1. x \in Int
        BY <2>1 DEF CaseRecords, Time
      <3> HIDE DEF x
      <3>2. y \in Int /\ y \in { Idle, x } /\ \A u \in { Idle, x } : y <= u
        BY <1>1, <3>1
      <3> HIDE DEF y
      <3>3. Min({ Idle, x }) = y
        BY <1>1, <3>1, <3>2, SmallestIs
      <3>4. z \in Int /\ z \in { 1, y } /\ \A u \in { 1, y } : u <= z
        BY <3>2
      <3> HIDE DEF z
      <3>5. Max({ 1, y }) = z
        BY <3>2, <3>4, MaxIs
      <3>6. QED
        BY <3>3, <3>4, <3>5 DEF x
    <2>2. QED
      BY <1>1, <2>1 DEF WakeAfter
  <1>3. DecisionFor(c).action \in { "wait", "abandon", "request_consent" }
        /\ DecisionFor(c).after \in { 0, Idle, WakeAfter(c) }
    BY DEF DecisionFor, Want
  <1>4. QED
    BY <1>1, <1>2, <1>3

-----------------------------------------------------------------------------
(* The run of a policy *)

InPlay == { "feed", "decide", "baseline", "act", "report", "push" }

\* The types that the arithmetic of the run needs.
RowsOK ==
    /\ cases \in [ Payments -> CaseRecords ] /\ ingested \subseteq Payments
    /\ VerdictsTyped /\ decision.after \in Int

\* No payment is woken before it failed.
ClockOK ==
    /\ now \in Nat
    /\ wake \in [ Payments -> Nat \cup { Never } ]
    /\ \A p \in Payments : wake[p] # Never => latent[p].failed <= wake[p]

\* The payment at hand is open until it is acted upon, and the clock is on it.
TurnOK ==
    /\ pc \in InPlay \cup { "pop", "settle", "done" }
    /\ pc \in InPlay => /\ current \in Payments
                        /\ now <= Horizon /\ latent[current].failed <= now
    /\ pc \in { "feed", "decide", "baseline", "act" } => ~latent[current].resolved
    /\ pc = "act" => decision.action \in Actions
    /\ pc = "report" /\ outcome = "attempt_failed" => ~latent[current].resolved

\* The tails are rolled in the order of the payments.
TailsOK ==
    pc \in { "settle", "done" } =>
        /\ current \in Payments
        /\ \A p \in Payments : p < current \/ pc = "done" => FullyRolled(latent[p])

\* Nothing impossible has happened in the world.
WorldOK ==
    /\ latent \in [ Payments -> Latents ]
    /\ \A p \in Payments : Sound(latent[p])

RunInv == RowsOK /\ ClockOK /\ TurnOK /\ TailsOK /\ WorldOK

\* A step that changes the payment at hand, soundly, and no other.
OneChanges(n) ==
    /\ current \in Payments
    /\ latent' = [ latent EXCEPT ![current] = n ]
    /\ Sound(n) /\ Fixed(latent[current], n)

\* What it means for the world.
LEMMA OneChangesWorld ==
  ASSUME WorldOK, NEW n, OneChanges(n)
  PROVE  /\ WorldOK' /\ latent'[current] = n
         /\ \A p \in Payments : /\ p # current => latent'[p] = latent[p]
                                /\ Fixed(latent[p], latent'[p])
  <1>1. latent'[current] = n /\ \A p \in Payments : p # current => latent'[p] = latent[p]
    BY DEF OneChanges, WorldOK
  <1>2. n \in Latents
    BY DEF OneChanges, Sound
  <1>3. latent' \in [ Payments -> Latents ]
    BY <1>2 DEF OneChanges, WorldOK
  <1>4. \A p \in Payments : Sound(latent'[p])
    BY <1>1 DEF OneChanges, WorldOK
  <1>5. \A p \in Payments : Fixed(latent[p], latent'[p])
    BY <1>1, <1>3 DEF OneChanges, Fixed
  <1>6. QED
    BY <1>1, <1>3, <1>4, <1>5 DEF WorldOK

\* The world does not move in a step of the engine.
LEMMA WorldStays ==
  ASSUME WorldOK, UNCHANGED latent
  PROVE  WorldOK' /\ \A p \in Payments : Fixed(latent[p], latent'[p])
  BY DEF WorldOK, Fixed

\* The payments of the world before the first wake.
LEMMA RunStarts ==
  ASSUME Init
  PROVE  RunInv
  <1>1. \A p \in Payments : latent[p] \in Worlds
    BY DEF Init
  <1>2. \A p \in Payments : Sound(latent[p]) /\ latent[p] \in Latents
    BY <1>1, WorldsAreSound DEF Sound
  <1>3. WorldOK
    BY <1>2 DEF Init, WorldOK
  <1>4. ClockOK
    <2>1. \A p \in Payments : latent[p].failed \in Nat
      BY <1>2 DEF Latents
    <2>2. QED
      BY <2>1 DEF Init, ClockOK
  <1>5. TurnOK /\ TailsOK
    BY DEF Init, TurnOK, TailsOK, InPlay
  <1>6. RowsOK
    BY CaseConstants DEF Init, RowsOK, VerdictsTyped, NoDecision
  <1>7. QED
    BY <1>3, <1>4, <1>5, <1>6 DEF RunInv

\* Taking the next wake from the heap keeps the run sound.
LEMMA RunPop ==
  ASSUME RunInv, Pop
  PROVE  RunInv' /\ UNCHANGED << latent, decision, outcome, engine >>
  <1> DEFINE p == NextUp
  <1>0. /\ pc = "pop" /\ UNCHANGED << scenario, latent, decision, outcome, engine >>
        /\ wake' = [ wake EXCEPT ![p] = Never ]
        /\ IF wake[p] > Horizon \/ latent[p].resolved
           THEN UNCHANGED << pc, now, current >>
           ELSE /\ now' = wake[p] /\ current' = p
                /\ pc' = IF policy # "railpulse" THEN "baseline"
                         ELSE IF p \in ingested THEN "decide" ELSE "feed"
    BY DEF Pop, NextUp
  <1>1. p \in Payments /\ wake[p] \in Nat
    <2>1. wake \in [ Payments -> Nat \cup { Never } ] /\ Queued # {}
      BY DEF RunInv, ClockOK, Pop
    <2>2. QED
      BY <2>1, NextUpIsQueued DEF Queued
  <1> HIDE DEF p
  <1>2. RowsOK' /\ WorldOK'
    BY <1>0 DEF RunInv, RowsOK, WorldOK, engine, VerdictsTyped
  <1>3. ClockOK'
    <2>1. now' \in Nat
      BY <1>0, <1>1 DEF RunInv, ClockOK
    <2>2. \A q \in Payments : wake'[q] \in { wake[q], Never } /\ latent'[q] = latent[q]
      BY <1>0 DEF RunInv, ClockOK
    <2>3. wake' \in [ Payments -> Nat \cup { Never } ]
      BY <1>0 DEF RunInv, ClockOK
    <2>4. QED
      BY <2>1, <2>2, <2>3 DEF RunInv, ClockOK
  <1>4. TurnOK' /\ TailsOK'
    <2>1. CASE wake[p] > Horizon \/ latent[p].resolved
      BY <1>0, <2>1 DEF RunInv, TurnOK, TailsOK, InPlay
    <2>2. CASE ~(wake[p] > Horizon \/ latent[p].resolved)
      <3>1. /\ now' = wake[p] /\ current' = p
            /\ pc' \in { "baseline", "decide", "feed" }
        BY <1>0, <2>2
      <3>2. wake[p] <= Horizon /\ latent[p].failed <= wake[p] /\ ~latent[p].resolved
        BY <1>1, <2>2, WorldAssumption DEF RunInv, ClockOK, Never
      <3>3. QED
        BY <1>0, <1>1, <3>1, <3>2 DEF TurnOK, TailsOK, InPlay
    <2>3. QED
      BY <2>1, <2>2
  <1>5. QED
    BY <1>0, <1>2, <1>3, <1>4 DEF RunInv, engine

\* What an action comes to, in the middle of a run.
LEMMA ActEffect ==
  ASSUME RunInv, Act
  PROVE  /\ OneChanges(latent'[current])
         /\ Effect(latent[current], decision.action, latent'[current], outcome')
         /\ ~latent[current].resolved
  <1>1. /\ pc = "act" /\ current \in Payments /\ now \in Nat /\ now <= Horizon
        /\ latent[current].failed <= now /\ ~latent[current].resolved
        /\ decision.action \in Actions /\ Sound(latent[current])
    BY DEF RunInv, TurnOK, ClockOK, WorldOK, InPlay, Act
  <1>2. PICK r \in Apply(latent[current], decision.action, now) :
           latent' = [ latent EXCEPT ![current] = r.latent ] /\ outcome' = r.kind
    BY DEF Act
  <1>3. Effect(latent[current], decision.action, r.latent, r.kind)
    BY <1>1, <1>2, ApplyEffect
  <1>4. latent'[current] = r.latent
    BY <1>1, <1>2 DEF RunInv, WorldOK
  <1>5. QED
    BY <1>1, <1>2, <1>3, <1>4 DEF OneChanges, Effect, Faithful

\* Applying a decision to the world keeps the run sound.
LEMMA RunAct ==
  ASSUME RunInv, Act
  PROVE  RunInv'
  <1> DEFINE n == latent'[current]
             l == latent[current]
  <1>0. /\ pc = "act" /\ pc' \in { "report", "push" }
        /\ UNCHANGED << scenario, wake, now, current, decision, engine >>
    BY DEF Act
  <1>1. OneChanges(n) /\ Effect(l, decision.action, n, outcome')
    BY ActEffect
  <1>2. /\ WorldOK'
        /\ \A p \in Payments : Fixed(latent[p], latent'[p])
    BY <1>1, OneChangesWorld DEF RunInv
  <1>3. \A p \in Payments : latent'[p].failed = latent[p].failed
    BY <1>2 DEF Fixed
  <1>4. RowsOK' /\ ClockOK'
    BY <1>0, <1>3 DEF RunInv, RowsOK, ClockOK, engine, VerdictsTyped
  <1>5. TurnOK' /\ TailsOK'
    <2>1. /\ current \in Payments /\ now <= Horizon /\ latent[current].failed <= now
      BY <1>0 DEF RunInv, TurnOK, InPlay
    <2>2. outcome' = "attempt_failed" => ~n.resolved
      BY <1>1 DEF Effect
    <2>3. QED
      BY <1>0, <1>3, <2>1, <2>2 DEF TurnOK, TailsOK, InPlay
  <1>6. QED
    BY <1>2, <1>4, <1>5 DEF RunInv

\* Setting the next wake keeps the run sound.
LEMMA RunPush ==
  ASSUME RunInv, Push
  PROVE  RunInv'
  <1>0. /\ pc = "push" /\ pc' = "pop" /\ decision' = NoDecision
        /\ UNCHANGED << scenario, latent, now, current, engine >>
        /\ \/ wake' = wake
           \/ wake' = [ wake EXCEPT ![current] = NextWake ]
    BY DEF Push
  <1>1. /\ current \in Payments /\ latent[current].failed <= now /\ now \in Nat
        /\ latent[current].failed \in Nat /\ decision.after \in Int
    BY <1>0 DEF RunInv, TurnOK, InPlay, ClockOK, WorldOK, Latents, RowsOK
  <1>2. NextWake \in Nat /\ now <= NextWake
    <2> DEFINE a == decision.after
               x == IF 1 >= a THEN 1 ELSE a
    <2>1. a \in Int
      BY <1>1
    <2> HIDE DEF a
    <2>2. x \in Int /\ x >= 1 /\ x \in { 1, a } /\ \A u \in { 1, a } : u <= x
      BY <2>1
    <2> HIDE DEF x
    <2>3. Max({ 1, a }) = x
      BY <2>1, <2>2, MaxIs
    <2>4. QED
      BY <1>1, <2>2, <2>3 DEF NextWake, a
  <1> HIDE DEF NextWake
  <1>3. RowsOK' /\ WorldOK'
    BY <1>0 DEF RunInv, RowsOK, WorldOK, engine, VerdictsTyped, NoDecision
  <1>4. ClockOK'
    <2>1. \A p \in Payments : \/ wake'[p] = wake[p]
                              \/ p = current /\ wake'[p] = NextWake
      BY <1>0 DEF RunInv, ClockOK
    <2>2. wake' \in [ Payments -> Nat \cup { Never } ]
      BY <1>0, <1>2 DEF RunInv, ClockOK
    <2>3. latent[current].failed <= NextWake
      BY <1>1, <1>2
    <2>4. QED
      BY <1>0, <2>1, <2>2, <2>3 DEF RunInv, ClockOK
  <1>5. TurnOK' /\ TailsOK'
    BY <1>0 DEF TurnOK, TailsOK, InPlay
  <1>6. QED
    BY <1>3, <1>4, <1>5 DEF RunInv

\* Leaving the heap keeps the run sound.
LEMMA RunSettle ==
  ASSUME RunInv, Settle
  PROVE  RunInv'
  <1>0. /\ pc = "pop" /\ pc' = "settle" /\ current' = Min(Payments)
        /\ UNCHANGED << scenario, latent, wake, now, decision, outcome, engine >>
    BY DEF Settle
  <1>1. Min(Payments) \in Payments /\ \A p \in Payments : ~(p < Min(Payments))
    <2>1. Payments \subseteq Nat /\ Payments # {}
      BY SimulationAssumption
    <2>2. Min(Payments) \in Payments /\ \A p \in Payments : Min(Payments) <= p
      BY <2>1, MinIs
    <2>3. \A x \in Nat, y \in Nat : x <= y => ~(y < x)
      OBVIOUS
    <2>4. QED
      BY <2>1, <2>2, <2>3
  <1>2. RowsOK' /\ WorldOK' /\ ClockOK'
    BY <1>0 DEF RunInv, RowsOK, WorldOK, ClockOK, engine, VerdictsTyped
  <1>3. TurnOK' /\ TailsOK'
    BY <1>0, <1>1 DEF TurnOK, TailsOK, InPlay
  <1>4. QED
    BY <1>2, <1>3 DEF RunInv

\* The tail of a payment.
LEMMA SettleEffect ==
  ASSUME RunInv, SettleOne
  PROVE  LET l == latent[current]
             n == latent'[current]
         IN /\ OneChanges(n) /\ FullyRolled(n) /\ Untouched(l, n)
            /\ n.optedOut = l.optedOut /\ (l.recovered # Never => n.recovered # Never)
  <1>1. current \in Payments /\ Sound(latent[current])
    BY DEF RunInv, TailsOK, WorldOK, SettleOne
  <1>2. PICK l \in SettledToHorizon(latent[current]) :
           latent' = [ latent EXCEPT ![current] = l ]
    BY DEF SettleOne
  <1>3. /\ Sound(l) /\ FullyRolled(l) /\ Fixed(latent[current], l)
        /\ Untouched(latent[current], l) /\ l.optedOut = latent[current].optedOut
        /\ latent[current].recovered # Never => l.recovered # Never
    BY <1>1, <1>2, SettledIsSound
  <1>4. latent'[current] = l
    BY <1>1, <1>2 DEF RunInv, WorldOK
  <1>5. QED
    BY <1>1, <1>2, <1>3, <1>4 DEF OneChanges

\* Letting one open payment run to the horizon keeps the run sound.
LEMMA RunSettleOne ==
  ASSUME RunInv, SettleOne
  PROVE  RunInv'
  <1> DEFINE left == { p \in Payments : p > current }
  <1>0. /\ pc = "settle" /\ current \in Payments
        /\ UNCHANGED << scenario, wake, now, decision, outcome, engine >>
        /\ IF left = {} THEN pc' = "done" /\ UNCHANGED current
           ELSE current' = Min(left) /\ UNCHANGED pc
    BY DEF SettleOne, RunInv, TailsOK
  <1>1. OneChanges(latent'[current]) /\ FullyRolled(latent'[current])
    BY SettleEffect
  <1>2. /\ WorldOK'
        /\ \A p \in Payments : /\ p # current => latent'[p] = latent[p]
                               /\ Fixed(latent[p], latent'[p])
    BY <1>1, OneChangesWorld DEF RunInv
  <1>3. \A p \in Payments : latent'[p].failed = latent[p].failed
    BY <1>2 DEF Fixed
  <1>4. RowsOK' /\ ClockOK'
    BY <1>0, <1>3 DEF RunInv, RowsOK, ClockOK, engine, VerdictsTyped
  <1>5. \A p \in Payments : p < current \/ p = current => FullyRolled(latent'[p])
    <2>1. \A p \in Payments : p < current => FullyRolled(latent[p])
      BY <1>0 DEF RunInv, TailsOK
    <2>2. \A p \in Payments : p # current => latent'[p] = latent[p]
      BY <1>2
    <2> TAKE p \in Payments
    <2>3. CASE p = current
      BY <1>1, <2>3
    <2>4. CASE p # current
      BY <2>1, <2>2, <2>4
    <2>5. QED
      BY <2>3, <2>4
  <1>6. \A p \in Payments : p \in Nat /\ (p > current \/ p = current \/ p < current)
    BY <1>0, SimulationAssumption
  <1>7. TurnOK' /\ TailsOK'
    <2>1. CASE left = {}
      <3>1. pc' = "done" /\ current' = current
        BY <1>0, <2>1
      <3>2. \A p \in Payments : FullyRolled(latent'[p])
        BY <1>5, <1>6, <2>1
      <3>3. QED
        BY <1>0, <3>1, <3>2 DEF TurnOK, TailsOK, InPlay
    <2>2. CASE left # {}
      <3>1. pc' = "settle" /\ current' = Min(left)
        BY <1>0, <2>2
      <3>2. left \subseteq Nat
        BY <1>6
      <3>3. Min(left) \in left /\ \A p \in left : Min(left) <= p
        BY <2>2, <3>2, MinIs
      <3>4. ASSUME NEW p \in Payments, p < Min(left) PROVE FullyRolled(latent'[p])
        <4>1. p \notin left
          BY <1>6, <3>2, <3>3, <3>4
        <4>2. QED
          BY <1>5, <1>6, <4>1
      <3>5. QED
        BY <3>1, <3>3, <3>4 DEF TurnOK, TailsOK, InPlay
    <2>3. QED
      BY <2>1, <2>2
  <1>8. QED
    BY <1>2, <1>4, <1>7 DEF RunInv

\* A baseline policy's choice keeps the run sound.
LEMMA RunBaseline ==
  ASSUME RunInv, Baseline
  PROVE  RunInv'
  <1>0. /\ pc = "baseline" /\ pc' = "act"
        /\ decision' = BaselineDecision(latent[current], now)
        /\ UNCHANGED << scenario, latent, wake, now, current, outcome, engine >>
    BY DEF Baseline
  <1>1. ASSUME NEW l, NEW t
        PROVE  /\ BaselineDecision(l, t).action \in Actions
               /\ BaselineDecision(l, t).after \in Int
    BY SimulationAssumption, WorldAssumption DEF BaselineDecision, Want, Actions
  <1>2. RowsOK' /\ WorldOK' /\ ClockOK'
    BY <1>0, <1>1 DEF RunInv, RowsOK, WorldOK, ClockOK, engine, VerdictsTyped
  <1>3. TurnOK' /\ TailsOK'
    BY <1>0, <1>1 DEF RunInv, TurnOK, TailsOK, InPlay
  <1>4. QED
    BY <1>2, <1>3 DEF RunInv

\* The webhooks that the adapter makes up are webhooks.
LEMMA EventsAreEvents ==
  ASSUME now \in Nat
  PROVE  /\ \A code \in FailureCodes \cup { "none" } :
               EventOK(Event("payment.failed", code, NoLink))
         /\ cases[current] \in CaseRecords => EventOK(PaidEvent)
  <1>1. ASSUME NEW code \in FailureCodes \cup { "none" }, NEW n \in Nat,
               NEW type \in { "payment.failed", "payment_link.paid", "payment.captured" }
        PROVE  EventOK(Event(type, code, n))
    BY DEF EventOK, Event, EventTypes, FailureEvents, LinkEvents, SuccessEvents, Time
  <1>2. NoLink \in Nat /\ (cases[current] \in CaseRecords => cases[current].link \in Nat)
    BY DEF NoLink, CaseRecords
  <1>3. QED
    BY <1>1, <1>2 DEF PaidEvent

\* A failure is fed to the engine, with the label it was given.
LEMMA FeedEffect ==
  ASSUME RunInv, Feed
  PROVE  /\ current \in Payments /\ ingested' = ingested \cup { current }
         /\ \E answer \in Answers(normaliser, Labels), degraded \in BOOLEAN :
               LET n == Normalised(answer)
                   e == Event("payment.failed", n.label, NoLink)
               IN /\ EventOK(e)
                  /\ cases' = [ cases EXCEPT ![current] = Handled(cases[current], e, degraded) ]
                  /\ cases'[current] = Handled(cases[current], e, degraded)
                  /\ n.label \in FailureCodes \cup { "none" }
                  /\ IF normaliser = "passthrough" THEN n.label = latent[current].code
                     ELSE n.label \in CanonicalCodes \cup { "none" }
                  /\ cache' = n.cache
                  /\ stats' = [ calls |-> stats.calls + n.calls,
                                errors |-> stats.errors + n.errors ]
         /\ RowsOK'
  <1>1. /\ current \in Payments /\ now \in Nat /\ latent[current] \in Latents
        /\ VerdictsTyped /\ cases \in [ Payments -> CaseRecords ]
    BY DEF Feed, RunInv, TurnOK, ClockOK, WorldOK, RowsOK, InPlay
  <1>2. PICK answer \in Answers(normaliser, Labels), degraded \in BOOLEAN :
          LET n == Normalised(answer)
          IN /\ cases' = [ cases EXCEPT ![current] =
                  Handled(@, Event("payment.failed", n.label, NoLink), degraded) ]
             /\ cache' = n.cache
             /\ stats' = [ calls |-> stats.calls + n.calls,
                           errors |-> stats.errors + n.errors ]
    BY DEF Feed
  <1> DEFINE n == Normalised(answer)
             e == Event("payment.failed", n.label, NoLink)
             h == Handled(cases[current], e, degraded)
  <1>3. /\ n.label \in FailureCodes \cup { "none" }
        /\ IF normaliser = "passthrough" THEN n.label = latent[current].code
           ELSE n.label \in CanonicalCodes \cup { "none" }
        /\ \A v \in n.cache : v[3] \in CanonicalCodes \cup { "none" }
    BY <1>1, NormalisedIs
  <1>4. EventOK(e)
    BY <1>1, <1>3, EventsAreEvents
  <1>5. h \in CaseRecords
    BY <1>1, <1>4, HandledType
  <1>6. cases' = [ cases EXCEPT ![current] = h ]
    BY <1>2
  <1> HIDE DEF e, n
  <1>7. cases' \in [ Payments -> CaseRecords ] /\ cases'[current] = h
    <2> HIDE DEF h
    <2>1. QED
      BY <1>1, <1>5, <1>6
  <1>8. RowsOK'
    <2>1. ingested' \subseteq Payments /\ decision' = decision
      BY <1>1 DEF Feed, RunInv, RowsOK
    <2>2. VerdictsTyped'
      BY <1>2, <1>3 DEF VerdictsTyped, n
    <2>3. QED
      BY <1>7, <2>1, <2>2 DEF RunInv, RowsOK
  <1>9. ingested' = ingested \cup { current }
    BY DEF Feed
  <1>10. QED
    BY <1>1, <1>2, <1>3, <1>4, <1>6, <1>7, <1>8, <1>9 DEF e, n

\* Feeding a failure to the engine keeps the run sound.
LEMMA RunFeed ==
  ASSUME RunInv, Feed
  PROVE  RunInv'
  <1>0. /\ pc = "feed" /\ pc' \in { "push", "decide" }
        /\ UNCHANGED << scenario, latent, wake, now, current, decision, outcome >>
    BY DEF Feed
  <1>1. RowsOK'
    BY FeedEffect
  <1>2. WorldOK' /\ ClockOK'
    BY <1>0 DEF RunInv, WorldOK, ClockOK
  <1>3. TurnOK' /\ TailsOK'
    BY <1>0 DEF RunInv, TurnOK, TailsOK, InPlay
  <1>4. QED
    BY <1>1, <1>2, <1>3 DEF RunInv

\* Reading a scheduled retry from the case keeps the run sound.
LEMMA RunDecideRetry ==
  ASSUME RunInv, DecideRetry
  PROVE  RunInv'
  <1>0. /\ pc = "decide" /\ pc' = "act"
        /\ decision' = Want("retry", WakeAfter(cases[current]))
        /\ UNCHANGED << scenario, latent, wake, now, current, outcome, engine >>
    BY DEF DecideRetry
  <1>1. decision'.action \in Actions /\ decision'.after \in Int
    <2>1. cases[current] \in CaseRecords /\ now \in Nat
      BY <1>0 DEF RunInv, RowsOK, TurnOK, ClockOK, InPlay
    <2>2. WakeAfter(cases[current]) \in Int
      BY <2>1, DecisionForType
    <2>3. QED
      BY <1>0, <2>2 DEF Want, Actions
  <1>2. RowsOK' /\ WorldOK' /\ ClockOK'
    BY <1>0, <1>1 DEF RunInv, RowsOK, WorldOK, ClockOK, engine, VerdictsTyped
  <1>3. TurnOK' /\ TailsOK'
    BY <1>0, <1>1 DEF RunInv, TurnOK, TailsOK, InPlay
  <1>4. QED
    BY <1>2, <1>3 DEF RunInv

\* A dispatch advances every row, and the adapter acts on its own.
LEMMA DispatchEffect ==
  ASSUME RunInv, DecideDispatch
  PROVE  /\ current \in Payments
         /\ \E cooled \in [ Payments -> CooldownOutcomes(now) ] :
               \A p \in Payments : cases'[p] = Dispatched(cases[p], cooled[p])
         /\ cases' \in [ Payments -> CaseRecords ]
         /\ decision' = DecisionFor(cases'[current])
         /\ decision'.action \in { "wait", "abandon", "request_consent" }
         /\ decision'.after \in Int
  <1>1. /\ current \in Payments /\ now \in Nat /\ cases \in [ Payments -> CaseRecords ]
    BY DEF DecideDispatch, RunInv, TurnOK, ClockOK, RowsOK, InPlay
  <1>2. PICK cooled \in [ Payments -> CooldownOutcomes(now) ] :
          cases' = [ p \in Payments |-> Dispatched(cases[p], cooled[p]) ]
    BY DEF DecideDispatch
  <1>3. \A p \in Payments : Dispatched(cases[p], cooled[p]) \in CaseRecords
    BY <1>1, DispatchedType
  <1>4. /\ cases' \in [ Payments -> CaseRecords ]
        /\ \A p \in Payments : cases'[p] = Dispatched(cases[p], cooled[p])
    BY <1>2, <1>3
  <1>5. decision' = DecisionFor(cases'[current])
    BY DEF DecideDispatch
  <1>6. cases'[current] \in CaseRecords
    BY <1>1, <1>4
  <1>7. \A c \in CaseRecords :
            /\ DecisionFor(c).action \in { "wait", "abandon", "request_consent" }
            /\ DecisionFor(c).after \in Int
    BY <1>1, DecisionForType
  <1>8. QED
    BY <1>1, <1>4, <1>5, <1>6, <1>7

\* The engine's tick over the case keeps the run sound.
LEMMA RunDecideDispatch ==
  ASSUME RunInv, DecideDispatch
  PROVE  RunInv'
  <1>0. /\ pc = "decide" /\ pc' = "act"
        /\ UNCHANGED << scenario, latent, wake, now, current, outcome, ingested,
                        cache, stats >>
    BY DEF DecideDispatch
  <1>1. /\ cases' \in [ Payments -> CaseRecords ]
        /\ decision'.action \in Actions /\ decision'.after \in Int
    BY DispatchEffect DEF Actions
  <1>2. RowsOK' /\ WorldOK' /\ ClockOK'
    BY <1>0, <1>1 DEF RunInv, RowsOK, WorldOK, ClockOK, VerdictsTyped
  <1>3. TurnOK' /\ TailsOK'
    BY <1>0, <1>1 DEF RunInv, TurnOK, TailsOK, InPlay
  <1>4. QED
    BY <1>2, <1>3 DEF RunInv

\* The engine is told of a recovery or of an opt-out.
LEMMA ReportEffect ==
  ASSUME RunInv, Report
  PROVE  LET c == cases[current]
         IN /\ current \in Payments /\ c \in CaseRecords /\ EventOK(PaidEvent)
            /\ cases' \in [ Payments -> CaseRecords ]
            /\ \A p \in Payments : p # current => cases'[p] = cases[p]
            /\ outcome = "recovered" => cases'[current] = Handled(c, PaidEvent, FALSE)
            /\ outcome = "opted_out" => cases'[current] = OptedOut(c)
            /\ outcome \notin { "recovered", "opted_out" } => cases'[current] = c
  <1> DEFINE c == cases[current]
             n == CASE outcome = "recovered" -> Handled(c, PaidEvent, FALSE)
                    [] outcome = "opted_out" -> OptedOut(c)
                    [] OTHER -> c
  <1>1. current \in Payments /\ now \in Nat /\ cases \in [ Payments -> CaseRecords ]
    BY DEF Report, RunInv, TurnOK, ClockOK, RowsOK, InPlay
  <1>2. c \in CaseRecords /\ EventOK(PaidEvent)
    BY <1>1, EventsAreEvents
  <1>3. cases' = [ cases EXCEPT ![current] = n ]
    BY DEF Report
  <1>4. Handled(c, PaidEvent, FALSE) \in CaseRecords /\ OptedOut(c) \in CaseRecords
    BY <1>2, HandledType, OptedOutType
  <1> HIDE DEF c
  <1>5. /\ outcome = "recovered" => n = Handled(c, PaidEvent, FALSE)
        /\ outcome = "opted_out" => n = OptedOut(c)
        /\ outcome \notin { "recovered", "opted_out" } => n = c
    OBVIOUS
  <1> HIDE DEF n
  <1>6. n \in CaseRecords
    BY <1>2, <1>4, <1>5
  <1>7. /\ cases' \in [ Payments -> CaseRecords ] /\ cases'[current] = n
        /\ \A p \in Payments : p # current => cases'[p] = cases[p]
    BY <1>1, <1>3, <1>6
  <1>8. QED
    BY <1>1, <1>2, <1>5, <1>7 DEF c

\* Reporting an outcome to the engine keeps the run sound.
LEMMA RunReport ==
  ASSUME RunInv, Report
  PROVE  RunInv'
  <1>0. /\ pc = "report"
        /\ pc' = IF outcome = "attempt_failed" THEN "feed" ELSE "push"
        /\ UNCHANGED << scenario, latent, wake, now, current, decision, outcome,
                        ingested, consentSent, cache, stats >>
    BY DEF Report
  <1>1. cases' \in [ Payments -> CaseRecords ]
    BY ReportEffect
  <1>2. RowsOK' /\ WorldOK' /\ ClockOK'
    BY <1>0, <1>1 DEF RunInv, RowsOK, WorldOK, ClockOK, VerdictsTyped
  <1>3. TurnOK' /\ TailsOK'
    BY <1>0 DEF RunInv, TurnOK, TailsOK, InPlay
  <1>4. QED
    BY <1>2, <1>3 DEF RunInv

\* A step of nothing keeps the run sound.
LEMMA RunStutters ==
  ASSUME RunInv, UNCHANGED vars
  PROVE  RunInv'
  BY DEF RunInv, RowsOK, VerdictsTyped, ClockOK, TurnOK, TailsOK, WorldOK, vars, engine,
         scenario

\* The invariant of the run is kept by every step.
LEMMA RunSteps ==
  ASSUME RunInv, [Next]_vars
  PROVE  RunInv'
  <1>1. CASE Pop            BY <1>1, RunPop
  <1>2. CASE Act            BY <1>2, RunAct
  <1>3. CASE Push           BY <1>3, RunPush
  <1>4. CASE Settle         BY <1>4, RunSettle
  <1>5. CASE SettleOne      BY <1>5, RunSettleOne
  <1>6. CASE Baseline       BY <1>6, RunBaseline
  <1>7. CASE Feed           BY <1>7, RunFeed
  <1>8. CASE DecideRetry    BY <1>8, RunDecideRetry
  <1>9. CASE DecideDispatch BY <1>9, RunDecideDispatch
  <1>10. CASE Report        BY <1>10, RunReport
  <1>11. CASE UNCHANGED vars
    BY <1>11, RunStutters
  <1>12. QED
    BY <1>1, <1>2, <1>3, <1>4, <1>5, <1>6, <1>7, <1>8, <1>9, <1>10, <1>11
       DEF Next, Step, Done

\* The run keeps its clock, its types and its world sound.
THEOREM RunIsSound == Spec => []RunInv
  <1>1. Init => RunInv
    BY RunStarts
  <1>2. RunInv /\ [Next]_vars => RunInv'
    BY RunSteps
  <1>3. QED
    BY <1>1, <1>2, PTL DEF Spec

\* For every policy and every world: nothing impossible is ever recovered.
THEOREM NothingImpossible == Spec => []NoImpossibleRecovery
  <1>1. RunInv => NoImpossibleRecovery
    BY DEF RunInv, WorldOK, Sound, Possible, NoImpossibleRecovery
  <1>2. QED
    BY <1>1, RunIsSound, PTL

\* For every policy, however often it looks: the elapsed time a customer is
\* credited with at the end is the time they were free to pay in.
THEOREM SameTimeForAll == Spec => []CadenceIndependent
  <1>1. RunInv => CadenceIndependent
    <2> SUFFICES ASSUME RunInv, pc = "done", NEW p \in Payments,
                        latent[p].recovered = Never, ~latent[p].optedOut,
                        latent[p].closed # Horizon
                 PROVE  latent[p].rolled =
                          (IF BlockCleared(latent[p], Horizon) /\ latent[p].failed < Horizon
                           THEN Horizon - latent[p].failed ELSE 0)
      BY DEF CadenceIndependent
    <2> DEFINE l == latent[p]
    <2>1. l \in Latents /\ WellRolled(l) /\ FullyRolled(l)
      BY DEF RunInv, WorldOK, TailsOK, Sound
    <2>2. l.failed \in Nat /\ l.last \in Nat \cup { Never } /\ Horizon \in Nat
      BY <2>1, WorldAssumption DEF Latents
    <2>3. /\ l.rolled = (IF l.last = Never THEN l.failed ELSE l.last) - l.failed
          /\ l.last # Never => /\ l.failed <= l.last /\ l.last <= Horizon
                               /\ BlockCleared(l, Horizon)
          /\ BlockCleared(l, Horizon) /\ l.failed < Horizon => l.last = Horizon
      BY <2>1 DEF WellRolled, FullyRolled, LastLook
    <2>4. CASE BlockCleared(l, Horizon) /\ l.failed < Horizon
      BY <2>2, <2>3, <2>4 DEF Never
    <2>5. CASE ~(BlockCleared(l, Horizon) /\ l.failed < Horizon)
      <3>1. l.last = Never \/ l.last = l.failed
        BY <2>2, <2>3, <2>5
      <3>2. l.rolled = 0
        BY <2>2, <2>3, <3>1
      <3>3. QED
        BY <2>5, <3>2
    <2>6. QED
      BY <2>4, <2>5
  <1>2. QED
    BY <1>1, RunIsSound, PTL

-----------------------------------------------------------------------------
(* The classifier pays once per message *)

\* Messages of the payments the engine knows.
Messages == { << latent[p].code, latent[p].cause >> : p \in ingested }

\* Messages the model gave a verdict on.
Judged == { << v[1], v[2] >> : v \in cache }

\* Every verdict was paid for once and is kept.
VerdictsOK ==
    /\ stats.calls \in Nat /\ stats.errors \in Nat
    /\ Judged \subseteq Messages
    /\ stats.calls - stats.errors <= Cardinality(Judged)

\* There are finitely many messages.
LEMMA MessagesAreFinite ==
  ASSUME ingested \subseteq Payments
  PROVE  IsFiniteSet(Messages) /\ Cardinality(Messages) \in Nat
  <1>1. IsFiniteSet(ingested)
    BY SimulationAssumption, FS_Subset
  <1>2. IsFiniteSet(Messages)
    <2> DEFINE f == [ p \in ingested |-> << latent[p].code, latent[p].cause >> ]
    <2>1. f \in Surjection(ingested, Messages)
      BY DEF Surjection, Messages
    <2> HIDE DEF f
    <2>2. QED
      BY <1>1, <2>1, FS_Surjection
  <1>3. QED
    BY <1>2, FS_CardinalityType

\* A new verdict is one more message.
LEMMA FeedPays ==
  ASSUME RunInv, VerdictsOK, Feed
  PROVE  VerdictsOK'
  <1> DEFINE m == << latent[current].code, latent[current].cause >>
  <1>1. current \in Payments /\ ingested' = ingested \cup { current } /\ UNCHANGED latent
        /\ latent[current] \in Latents /\ VerdictsTyped /\ ingested \subseteq Payments
    BY FeedEffect DEF Feed, RunInv, WorldOK, RowsOK
  <1>2. PICK answer \in Answers(normaliser, Labels) :
           /\ cache' = Normalised(answer).cache
           /\ stats' = [ calls |-> stats.calls + Normalised(answer).calls,
                         errors |-> stats.errors + Normalised(answer).errors ]
    BY FeedEffect
  <1> DEFINE n == Normalised(answer)
  <1>3. /\ n.calls \in Nat /\ n.errors \in Nat
        /\ \/ n.cache = cache /\ n.calls = n.errors
           \/ /\ \A v \in cache : ~(v[1] = latent[current].code /\ v[2] = latent[current].cause)
              /\ n.cache = cache \cup { << latent[current].code, latent[current].cause,
                                           Label(answer) >> }
              /\ n.calls = 1 /\ n.errors = 0
    BY <1>1, NormalisedIs
  <1> HIDE DEF n
  <1>4. Messages' = Messages \cup { m }
    BY <1>1 DEF Messages
  <1>5. IsFiniteSet(Judged) /\ Cardinality(Judged) \in Nat
    BY <1>1, MessagesAreFinite, FS_Subset, FS_CardinalityType DEF VerdictsOK
  <1>6. stats'.calls = stats.calls + n.calls /\ stats'.errors = stats.errors + n.errors
    BY <1>2 DEF n
  <1>7. stats'.calls \in Nat /\ stats'.errors \in Nat
    BY <1>3, <1>6 DEF VerdictsOK
  <1>8. CASE n.cache = cache /\ n.calls = n.errors
    <2>1. Judged' = Judged
      BY <1>2, <1>8 DEF Judged, n
    <2>2. stats'.calls - stats'.errors = stats.calls - stats.errors
      BY <1>3, <1>6, <1>8 DEF VerdictsOK
    <2>3. Judged' \subseteq Messages'
      BY <1>4, <2>1 DEF VerdictsOK
    <2>4. Cardinality(Judged)' = Cardinality(Judged)
      BY <2>1
    <2>5. QED
      BY <1>7, <2>2, <2>3, <2>4 DEF VerdictsOK
  <1>9. CASE /\ \A v \in cache : ~(v[1] = latent[current].code /\ v[2] = latent[current].cause)
             /\ n.cache = cache \cup { << latent[current].code, latent[current].cause,
                                          Label(answer) >> }
             /\ n.calls = 1 /\ n.errors = 0
    <2>1. Judged' = Judged \cup { m }
      <3> DEFINE t == << latent[current].code, latent[current].cause, Label(answer) >>
      <3>1. cache' = cache \cup { t }
        BY <1>2, <1>9 DEF n
      <3>2. << t[1], t[2] >> = m
        OBVIOUS
      <3> HIDE DEF t, m
      <3>3. { << v[1], v[2] >> : v \in cache \cup { t } } = Judged \cup { << t[1], t[2] >> }
        BY DEF Judged
      <3>4. Judged' = { << v[1], v[2] >> : v \in cache' }
        BY DEF Judged
      <3>5. QED
        BY <3>1, <3>2, <3>3, <3>4
    <2>2. m \notin Judged
      BY <1>9 DEF Judged
    <2> HIDE DEF m
    <2>3. Cardinality(Judged \cup { m }) = Cardinality(Judged) + 1
      BY <1>5, <2>2, FS_AddElement
    <2>4. Judged' \subseteq Messages'
      BY <1>4, <2>1 DEF VerdictsOK
    <2>5. Cardinality(Judged') = Cardinality(Judged) + 1
      BY <2>1, <2>3
    <2>6. stats'.calls - stats'.errors <= Cardinality(Judged) + 1
      BY <1>5, <1>6, <1>9 DEF VerdictsOK
    <2>7. QED
      BY <1>7, <2>4, <2>5, <2>6 DEF VerdictsOK
  <1>10. QED
    BY <1>3, <1>8, <1>9

\* Nobody else pays, and the messages stay what they were.
LEMMA OthersDoNotPay ==
  ASSUME RunInv, VerdictsOK, ingested' = ingested, UNCHANGED << cache, stats >>,
         \A p \in Payments : Fixed(latent[p], latent'[p])
  PROVE  VerdictsOK'
  <1>1. \A p \in ingested : << latent'[p].code, latent'[p].cause >>
                          = << latent[p].code, latent[p].cause >>
    BY DEF RunInv, RowsOK, Fixed
  <1>2. Messages' = Messages
    BY <1>1 DEF Messages
  <1>3. Judged' = Judged
    BY DEF Judged
  <1>4. QED
    BY <1>2, <1>3 DEF VerdictsOK

\* No step breaks the tie between a message, its verdict and its price.
LEMMA VerdictSteps ==
  ASSUME RunInv, VerdictsOK, [Next]_vars
  PROVE  VerdictsOK'
  <1>0. WorldOK
    BY DEF RunInv
  <1>1. CASE Feed
    BY <1>1, FeedPays
  <1>2. CASE Act
    <2>1. \A p \in Payments : Fixed(latent[p], latent'[p])
      BY <1>0, <1>2, ActEffect, OneChangesWorld
    <2>2. QED
      BY <1>2, <2>1, OthersDoNotPay DEF Act, engine
  <1>3. CASE SettleOne
    <2>1. \A p \in Payments : Fixed(latent[p], latent'[p])
      BY <1>0, <1>3, SettleEffect, OneChangesWorld
    <2>2. UNCHANGED engine
      BY <1>3 DEF SettleOne
    <2>3. QED
      BY <2>1, <2>2, OthersDoNotPay DEF engine
  <1>4. CASE \/ Pop \/ Push \/ Settle \/ Baseline \/ DecideRetry \/ DecideDispatch \/ Report
             \/ UNCHANGED vars
    <2>1. UNCHANGED << latent, ingested, cache, stats >>
      BY <1>4 DEF Pop, Push, Settle, Baseline, DecideRetry, DecideDispatch, Report, vars, engine
    <2>2. QED
      BY <1>0, <2>1, WorldStays, OthersDoNotPay
  <1>5. QED
    BY <1>1, <1>2, <1>3, <1>4 DEF Next, Step, Done

\* However many payments carry a message, the model is paid for one verdict.
THEOREM OnePricePerMessage == Spec => []OneVerdictPerMessage
  <1>1. Init => VerdictsOK
    <2> SUFFICES ASSUME Init PROVE VerdictsOK
      OBVIOUS
    <2>1. stats.calls = 0 /\ stats.errors = 0 /\ Judged = {}
      BY DEF Init, Judged
    <2>2. Cardinality(Judged) = 0
      BY <2>1, FS_EmptySet
    <2>3. QED
      BY <2>1, <2>2 DEF VerdictsOK
  <1>2. RunInv /\ VerdictsOK /\ [Next]_vars => VerdictsOK'
    BY VerdictSteps
  <1>3. RunInv /\ VerdictsOK => OneVerdictPerMessage
    <2> SUFFICES ASSUME RunInv, VerdictsOK PROVE OneVerdictPerMessage
      OBVIOUS
    <2>1. IsFiniteSet(Messages) /\ Cardinality(Messages) \in Nat
      BY MessagesAreFinite DEF RunInv, RowsOK
    <2>2. Cardinality(Judged) \in Nat /\ Cardinality(Judged) <= Cardinality(Messages)
      BY <2>1, FS_Subset, FS_CardinalityType DEF VerdictsOK
    <2>3. stats.calls - stats.errors <= Cardinality(Judged) /\ stats.calls \in Nat
          /\ stats.errors \in Nat
      BY DEF VerdictsOK
    <2>4. stats.calls - stats.errors <= Cardinality(Messages)
      BY <2>1, <2>2, <2>3
    <2>5. QED
      BY <2>4 DEF OneVerdictPerMessage, Messages
  <1>4. QED
    BY <1>1, <1>2, <1>3, RunIsSound, PTL DEF Spec

-----------------------------------------------------------------------------
(* The engine's books and the world's *)

Named == HardFailures \cup RiskFailures \cup TransientFailures

BooksRecovered == { "recovered_natural", "recovered_by_link" }

\* The states that a row of the benchmark reaches.
EngineStates == { "absent", "cooldown", "retry_scheduled", "link_sent",
                  "consent_required", "stopped", "manual_review" } \cup BooksRecovered

\* The row c of payment p, which the world holds as l, when the payments known
\* were ingested, those in sent were sent a link, and norm names the causes.
BookOK(p, c, l, known, sent, norm) ==
    /\ c \in CaseRecords /\ ~c.optout /\ c.state \in EngineStates
    /\ c.state = "absent" <=> p \notin known
    /\ p \notin known => /\ l.attempts = 0 /\ c.attempts = 0
                         /\ c.code = "none" /\ p \notin sent
    /\ c.state \in TimedStates => c.attempts < MaxRecoveryAttempts
    /\ norm = "passthrough" => c.code \in { "none", l.code }
    /\ c.code \notin Named => /\ l.attempts = 0 /\ l.contacts = 0
                              /\ c.state \in { "absent", "manual_review", "recovered_natural" }
    /\ c.state = "link_sent" => c.contacts >= 1
    /\ p \in sent => /\ c.contacts >= 1
                     /\ c.state \in { "link_sent", "recovered_by_link", "stopped" }
    /\ p \notin sent => l.contacts = 0
    /\ l.contacts <= 1
    /\ c.state \in BooksRecovered => l.recovered # Never
    /\ c.state = "stopped" /\ norm = "passthrough" =>
         l.cause = "risk_blocked" \/ l.optedOut

BooksOK == \A p \in Payments :
               BookOK(p, cases[p], latent[p], ingested, consentSent, normaliser)

\* The payment at hand, between the engine's decision and its report.
HandOK ==
    LET c == cases[current]
        l == latent[current]
    IN /\ pc # "baseline"
       /\ pc = "pop" => decision.action = "none"
       /\ pc = "feed" => IF current \in ingested
                         THEN c.state = "retry_scheduled" /\ decision.action = "retry"
                         ELSE decision.action = "none"
       /\ pc = "decide" => current \in ingested
       /\ pc = "act" =>
            /\ current \in ingested
            /\ decision.action = "retry" => c.state = "retry_scheduled"
            /\ decision.action = "request_consent" =>
                 c.state = "link_sent" /\ l.contacts = 0 /\ current \in consentSent
       /\ pc = "report" =>
            /\ current \in ingested
            /\ outcome = "attempt_failed" => /\ c.state = "retry_scheduled"
                                             /\ decision.action = "retry"
            /\ outcome = "opted_out" <=> l.optedOut
            /\ outcome = "opted_out" => c.state = "link_sent"
            /\ outcome = "recovered" <=> l.recovered # Never

\* Retries that failed and that the engine does not know of yet.
Behind(p) ==
    IF p = current /\ (\/ pc = "report" /\ outcome = "attempt_failed"
                       \/ pc = "feed" /\ current \in ingested)
    THEN 1 ELSE 0

Won(l) == IF ByRetry(l) THEN 1 ELSE 0

\* The row counts the first failure and every retry that failed.
Counted(c, l, behind) == c.attempts = 1 + l.attempts - Won(l) - behind

\* An outcome of the world that the engine has not been told.
Untold(p) == pc = "report" /\ p = current

\* The engine has a recovery, or has stopped the case for a wrong label.
Told(c, norm) ==
    c.state \in BooksRecovered \/ (c.state = "stopped" /\ norm # "passthrough")

\* The engine's books follow the world's, but for what is just being reported.
AgreeOK ==
    \A p \in Payments :
        /\ latent[p].optedOut => cases[p].state = "stopped" \/ Untold(p)
        /\ pc \notin { "settle", "done" } =>
             /\ latent[p].recovered # Never => Told(cases[p], normaliser) \/ Untold(p)
             /\ p \in ingested => Counted(cases[p], latent[p], Behind(p))
        /\ p \in ingested /\ MaxRecoveryAttempts >= 1 =>
             cases[p].attempts <= MaxRecoveryAttempts

-----------------------------------------------------------------------------
(* What the engine does to a row *)

\* The fields that most updates leave alone.
Kept(c, d) ==
    /\ d.code = c.code /\ d.attempts = c.attempts
    /\ d.contacts = c.contacts /\ d.optout = c.optout

\* Which fields the updates of a row leave as they were.
LEMMA RowFields ==
  ASSUME NEW g \in CaseRecords
  PROVE  /\ \A f, k, b, n : LET h == SeenRow(g, f, k, b, n)
                            IN /\ h.code = f /\ h.class = k
                               /\ h.optout = g.optout /\ h.contacts = g.contacts
         /\ \A s, u, r : Kept(g, DecidedRow(g, s, u, r))
         /\ \A d : Kept(g, Committed(g, d)) /\ Committed(g, d).state = d.state
  <1>1. ASSUME NEW f, NEW k, NEW b, NEW n
        PROVE  LET h == SeenRow(g, f, k, b, n)
               IN /\ h.code = f /\ h.class = k
                  /\ h.optout = g.optout /\ h.contacts = g.contacts
    BY DEF SeenRow, CaseRecords
  <1>2. ASSUME NEW s, NEW u, NEW r PROVE Kept(g, DecidedRow(g, s, u, r))
    BY DEF DecidedRow, CaseRecords, Kept
  <1>3. ASSUME NEW d PROVE Kept(g, Committed(g, d)) /\ Committed(g, d).state = d.state
    <2> DEFINE r == IF d.state \in ParkedStates THEN d.reason ELSE g.reason
    <2>1. Committed(g, d) = DecidedRow(g, d.state, d.due, r)
      BY DEF Committed, DecidedRow
    <2> HIDE DEF r
    <2>2. DecidedRow(g, d.state, d.due, r).state = d.state
      BY DEF DecidedRow, CaseRecords
    <2>3. QED
      BY <1>2, <2>1, <2>2
  <1>4. QED
    BY <1>1, <1>2, <1>3

\* A code is named exactly when it has a class of its own.
LEMMA NamedHasClass ==
  ASSUME NEW code \in FailureCodes \cup { "none" }
  PROVE  /\ ClassifyFailure(code) = "risk" <=> code \in RiskFailures
         /\ ClassifyFailure(code) = "unknown" <=> code \notin Named
  BY DEF ClassifyFailure, Named, FailureCodes, HardFailures, RiskFailures, TransientFailures

\* What the policy decides on a row that did not opt out.
LEMMA DecideIs ==
  ASSUME NEW g \in CaseRecords, NEW t \in Time, NEW b \in BOOLEAN, ~g.optout
  PROVE  LET s == Decide(g, t, b).state
         IN /\ s \in { "stopped", "manual_review", "consent_required", "cooldown",
                       "retry_scheduled" }
            /\ s = "stopped" => g.class = "risk"
            /\ s \in { "consent_required", "cooldown", "retry_scheduled" } =>
                 g.attempts < MaxRecoveryAttempts /\ g.class # "unknown"
  <1>1. g.attempts >= MaxRecoveryAttempts \/ g.attempts < MaxRecoveryAttempts
    BY LimitsAssumption DEF CaseRecords
  <1>2. QED
    BY <1>1 DEF Decide, Decision

\* A failure of a payment the engine meets, or retries: it is counted, and the
\* code decides where the case goes.
LEMMA FailureIs ==
  ASSUME NEW c \in CaseRecords, NEW e, EventOK(e), NEW b \in BOOLEAN,
         e.type = "payment.failed", ~c.optout,
         c.state = "absent" \/ c.state = "retry_scheduled",
         c.state = "absent" => c.attempts = 0 /\ c.code = "none"
  PROVE  LET h == Handled(c, e, b)
         IN /\ h \in CaseRecords /\ ~h.optout
            /\ h.attempts = c.attempts + 1
            /\ h.code = (IF e.code # "none" THEN e.code ELSE c.code)
            /\ h.state \in { "stopped", "manual_review", "consent_required", "cooldown",
                             "retry_scheduled" }
            /\ h.state = "stopped" => h.code \in RiskFailures
            /\ h.state \in { "consent_required", "cooldown", "retry_scheduled" } =>
                 h.attempts < MaxRecoveryAttempts /\ h.code \in Named
  <1> DEFINE d0 == FoundRow(c, e)
             code == IF e.code # "none" THEN e.code ELSE d0.code
             k == ClassifyFailure(code)
             am == d0.amount \/ e.amount
             n == d0.attempts + 1
             again == CountedRow(d0, n, am)
             seen == SeenRow(d0, code, k, am, n)
             d == Decide(seen, e.at, b)
             s == d.state
             u == d.due
             r == IF d.state \in ParkedStates THEN d.reason ELSE "none"
             out == DecidedRow(seen, s, u, r)
             h == HandleFailure(c, e, b)
  <1>1. h = IF IsFinal(d0) THEN d0
            ELSE IF d0.state \in AlreadyActioned THEN again
            ELSE IF ~CanTransition(d0.state, s) THEN seen ELSE out
    BY DEF HandleFailure, FoundRow, CountedRow, SeenRow, DecidedRow
  <1>2. /\ d0 \in CaseRecords
        /\ c.state # "absent" => d0 = c
        /\ c.state = "absent" => d0.state = "open" /\ d0.attempts = 0
                                 /\ d0.code = "none" /\ ~d0.optout
    <2>1. /\ d0 \in CaseRecords
          /\ c.state # "absent" => d0 = c
          /\ c.state = "absent" => d0.state = "open" /\ d0.attempts = 0
      BY FoundRowType
    <2>2. c.state = "absent" => d0.code = "none" /\ ~d0.optout
      BY DEF FoundRow, NewCase
    <2>3. QED
      BY <2>1, <2>2
  <1>3. /\ d0.state \in { "open", "retry_scheduled" } /\ d0.attempts = c.attempts
        /\ d0.code = c.code /\ ~d0.optout
    BY <1>2
  <1>4. /\ code \in FailureCodes \cup { "none" } /\ k \in FailureClasses
        /\ am \in BOOLEAN /\ n \in Nat
    <2> HIDE DEF d0
    <2>1. d0.attempts \in Nat /\ d0.code \in FailureCodes \cup { "none" }
      BY <1>2 DEF CaseRecords
    <2>2. QED
      BY <2>1, ClassifyType DEF EventOK
  <1>5. code = (IF e.code # "none" THEN e.code ELSE c.code)
        /\ k = ClassifyFailure(code) /\ n = c.attempts + 1
    BY <1>3
  <1> HIDE DEF d0, code, k, am, n
  <1>6. /\ seen \in CaseRecords /\ seen.attempts = n /\ seen.code = code
        /\ seen.class = k /\ ~seen.optout
    <2>1. /\ SeenRow(d0, code, k, am, n) \in CaseRecords
          /\ SeenRow(d0, code, k, am, n).attempts = n
      BY <1>2, <1>4, SeenRowType
    <2>2. /\ SeenRow(d0, code, k, am, n).code = code
          /\ SeenRow(d0, code, k, am, n).class = k
          /\ SeenRow(d0, code, k, am, n).optout = d0.optout
      BY <1>2, RowFields
    <2>3. QED
      BY <1>3, <2>1, <2>2
  <1> HIDE DEF seen, again
  <1>7. e.at \in Time
    BY DEF EventOK
  <1>8. /\ s \in { "stopped", "manual_review", "consent_required", "cooldown",
                   "retry_scheduled" }
        /\ s = "stopped" => k = "risk"
        /\ s \in { "consent_required", "cooldown", "retry_scheduled" } =>
             n < MaxRecoveryAttempts /\ k # "unknown"
    BY <1>6, <1>7, DecideIs
  <1>9. u \in Time \cup { NoTime } /\ r \in Reasons /\ s \in States
    <2>1. d \in Decisions
      BY <1>6, <1>7, DecideType
    <2>2. QED
      BY <2>1 DEF Decisions, Reasons
  <1> HIDE DEF d, s, u, r
  <1>10. out \in CaseRecords /\ out.state = s /\ out.attempts = n
         /\ out.code = code /\ ~out.optout
    <2>1. /\ DecidedRow(seen, s, u, r) \in CaseRecords
          /\ DecidedRow(seen, s, u, r).state = s
      BY <1>6, <1>9, DecidedRowType
    <2>2. Kept(seen, DecidedRow(seen, s, u, r))
      BY <1>6, RowFields
    <2>3. QED
      BY <1>6, <2>1, <2>2 DEF Kept
  <1> HIDE DEF out
  <1>11. h = out
    <2>1. ~IsFinal(d0) /\ d0.state \notin AlreadyActioned
      BY <1>3 DEF IsFinal, FinalStates, AlreadyActioned
    <2>2. CanTransition(d0.state, s)
      BY <1>3, <1>8 DEF CanTransition, AllowedTransitions, States
    <2>3. QED
      BY <1>1, <2>1, <2>2
  <1> HIDE DEF h
  <1>12. Handled(c, e, b) = h
    <2>1. e.type \in FailureEvents
      BY DEF FailureEvents
    <2>2. QED
      BY <2>1, HandledCases DEF h
  <1>13. /\ k = "risk" <=> code \in RiskFailures
         /\ k = "unknown" <=> code \notin Named
    BY <1>4, <1>5, NamedHasClass
  <1>14. QED
    BY <1>5, <1>8, <1>10, <1>11, <1>12, <1>13

\* A link that is sent is a contact.
LEMMA LinkSentIs ==
  ASSUME NEW c \in CaseRecords, NEW n \in Nat, NEW t \in Time
  PROVE  LET d == LinkSent(c, n, t)
         IN /\ d \in CaseRecords /\ d.state = "link_sent" /\ d.contacts >= 1
            /\ d.code = c.code /\ d.attempts = c.attempts /\ d.optout = c.optout
  <1> DEFINE x == EffectiveContacts(c, t) + 1
             f == [ c EXCEPT !.contacts = x, !.last = t ]
             d == [ f EXCEPT !.link = n, !.lstat = "issued",
                             !.state = "link_sent", !.due = NoTime ]
  <1>1. x >= 1 /\ x \in Nat
    BY DEF EffectiveContacts, CaseRecords
  <1>2. LinkSent(c, n, t) = d
    BY DEF LinkSent, RecordContact
  <1>3. LinkSent(c, n, t) \in CaseRecords
    BY LinkSentType
  <1> HIDE DEF x
  <1>4. /\ f.contacts = x /\ f.code = c.code /\ f.attempts = c.attempts
        /\ f.optout = c.optout /\ d.contacts = f.contacts
        /\ d.code = f.code /\ d.attempts = f.attempts /\ d.optout = f.optout
        /\ d.state = "link_sent"
    BY DEF CaseRecords
  <1> HIDE DEF d, f
  <1>5. QED
    BY <1>1, <1>2, <1>3, <1>4

\* The states that a tick moves, and those it leaves alone.
Movable == { "cooldown", "retry_scheduled", "consent_required" }

\* A tick moves a case on, sends its link or hands it to a person.
LEMMA TickIs ==
  ASSUME now \in Nat, NEW c \in CaseRecords, NEW cooled \in CooldownOutcomes(now),
         ~c.optout, c.state \in TimedStates => c.attempts < MaxRecoveryAttempts
  PROVE  LET d == Dispatched(c, cooled)
         IN /\ d \in CaseRecords /\ d.code = c.code /\ d.attempts = c.attempts /\ ~d.optout
            /\ c.state \notin Movable => d = c
            /\ c.state \in Movable =>
                 \/ d.state \in TimedStates /\ c.state \in TimedStates
                 \/ d.state = "manual_review"
                 \/ d.state = "link_sent" /\ d.contacts >= 1
  <1> DEFINE p == Timed(c, cooled)
             d == Dispatched(c, cooled)
             blocked == ContactBlocked(c, now)
  <1>1. p \in CaseRecords /\ d \in CaseRecords
    BY DispatchedType
  <1>2. ASSUME NEW g \in CaseRecords, ~g.optout, ContactBlocked(g, now) # "none"
        PROVE  Refusal(ContactBlocked(g, now)).state = "manual_review"
    BY <1>2 DEF ContactBlocked, Refusal, Decision
  <1>3. /\ p.code = c.code /\ p.attempts = c.attempts /\ ~p.optout
        /\ c.state \notin TimedStates => p = c
        /\ c.state \in TimedStates =>
             p.state \in TimedStates \cup { "manual_review", "consent_required" }
    <2>1. CASE c.state = "cooldown" /\ Due(c)
      <3>1. p = Committed(c, cooled)
        BY <2>1 DEF Timed
      <3>2. cooled.state \in TimedStates
        BY DEF CooldownOutcomes, Decision, TimedStates
      <3>3. Kept(c, p) /\ p.state = cooled.state
        BY <3>1, RowFields
      <3>4. QED
        BY <2>1, <3>2, <3>3 DEF Kept, TimedStates
    <2>2. CASE c.state = "retry_scheduled" /\ Due(c)
      <3> DEFINE o == RetryOutcome(c, blocked)
      <3>1. p = Committed(c, o)
        BY <2>2 DEF Timed
      <3>2. ~(c.attempts >= MaxRecoveryAttempts)
        BY <2>2, LimitsAssumption DEF TimedStates, CaseRecords
      <3>3. o.state \in { "manual_review", "consent_required" }
        BY <1>2, <3>2 DEF RetryOutcome, Decision
      <3> HIDE DEF o
      <3>4. Kept(c, p) /\ p.state = o.state
        BY <3>1, RowFields
      <3>5. QED
        BY <2>2, <3>3, <3>4 DEF Kept, TimedStates
    <2>3. CASE ~(c.state = "cooldown" /\ Due(c)) /\ ~(c.state = "retry_scheduled" /\ Due(c))
      <3>1. p = c
        BY <2>3 DEF Timed
      <3>2. QED
        BY <3>1
    <2>4. QED
      BY <2>1, <2>2, <2>3
  <1>4. /\ p.state # "consent_required" => d = p
        /\ p.state = "consent_required" =>
             d = IF ContactBlocked(p, now) # "none"
                 THEN Committed(p, Refusal(ContactBlocked(p, now)))
                 ELSE LinkSent(p, 1, now)
    BY DispatchedIs
  <1> HIDE DEF p, d
  <1>5. CASE p.state # "consent_required"
    <2>1. d = p
      BY <1>4, <1>5
    <2>2. c.state \in Movable /\ c.state \notin TimedStates => FALSE
      BY <1>3, <1>5 DEF Movable, TimedStates
    <2>3. QED
      BY <1>1, <1>3, <1>5, <2>1, <2>2 DEF Movable, TimedStates, d
  <1>6. CASE p.state = "consent_required" /\ ContactBlocked(p, now) # "none"
    <2>1. d = Committed(p, Refusal(ContactBlocked(p, now)))
      BY <1>4, <1>6
    <2>2. Kept(p, d) /\ d.state = "manual_review"
      BY <1>1, <1>2, <1>3, <1>6, <2>1, RowFields
    <2>3. c.state \in Movable
      BY <1>3, <1>6 DEF Movable, TimedStates
    <2>4. QED
      BY <1>1, <1>3, <2>2, <2>3 DEF Kept, d
  <1>7. CASE p.state = "consent_required" /\ ContactBlocked(p, now) = "none"
    <2>1. d = LinkSent(p, 1, now)
      BY <1>4, <1>7
    <2>2. d.state = "link_sent" /\ d.contacts >= 1 /\ d.code = p.code
          /\ d.attempts = p.attempts /\ d.optout = p.optout
      BY <1>1, <2>1, LinkSentIs DEF Time
    <2>3. c.state \in Movable
      BY <1>3, <1>7 DEF Movable, TimedStates
    <2>4. QED
      BY <1>1, <1>3, <2>2, <2>3 DEF d
  <1>8. QED
    BY <1>5, <1>6, <1>7

\* The webhook of a recovery, when the payment was sent a link.
LEMMA PaidByLink ==
  ASSUME NEW c \in CaseRecords, NEW e, EventOK(e), NEW b \in BOOLEAN,
         e.type = "payment_link.paid", e.link = c.link,
         c.state \in { "link_sent", "recovered_by_link", "stopped" }
  PROVE  LET h == Handled(c, e, b)
         IN /\ h \in CaseRecords /\ Kept(c, h)
            /\ h.state = (IF c.state = "stopped" THEN "stopped" ELSE "recovered_by_link")
  <1> DEFINE h == HandleLink(c, e)
  <1>1. Handled(c, e, b) = h
    <2>1. /\ e.type \notin FailureEvents /\ e.type \notin SuccessEvents
          /\ e.type \in LinkEvents
      BY DEF FailureEvents, SuccessEvents, LinkEvents
    <2>2. QED
      BY <2>1 DEF Handled
  <1>2. h \in CaseRecords
    BY LinkRow
  <1>3. CASE c.state = "link_sent"
    <2> DEFINE marked == [ c EXCEPT !.preview = FALSE, !.lstat = LinkStatusOf(e) ]
               d == LinkTarget(c, e)
               m == [ marked EXCEPT !.state = d.state, !.reason = d.reason, !.due = NoTime ]
    <2>1. d.state = "recovered_by_link"
      BY <1>3 DEF LinkTarget, Decision
    <2>2. ~IsFinal(c) /\ CanTransition(c.state, "recovered_by_link")
      BY <1>3 DEF IsFinal, FinalStates, CanTransition, AllowedTransitions, States
    <2>3. h = m
      BY <2>1, <2>2 DEF HandleLink
    <2>4. /\ marked.code = c.code /\ marked.attempts = c.attempts
          /\ marked.contacts = c.contacts /\ marked.optout = c.optout
          /\ m.code = marked.code /\ m.attempts = marked.attempts
          /\ m.contacts = marked.contacts /\ m.optout = marked.optout /\ m.state = d.state
      BY DEF CaseRecords
    <2> HIDE DEF m, marked, d, h
    <2>5. QED
      BY <1>1, <1>2, <1>3, <2>1, <2>3, <2>4 DEF Kept
  <1>4. CASE c.state \in { "recovered_by_link", "stopped" }
    <2> DEFINE m == [ c EXCEPT !.recon = TRUE,
                               !.reason = "late_link_event_requires_reconciliation" ]
    <2>1. h = m
      BY <1>4 DEF HandleLink, IsFinal, FinalStates
    <2>2. Kept(c, m) /\ m.state = c.state
      BY DEF CaseRecords, Kept
    <2> HIDE DEF m, h
    <2>3. QED
      BY <1>1, <1>2, <1>4, <2>1, <2>2
  <1>5. QED
    BY <1>3, <1>4

\* And when it was not.
LEMMA PaidOnItsOwn ==
  ASSUME NEW c \in CaseRecords, NEW e, EventOK(e), NEW b \in BOOLEAN,
         e.type = "payment.captured", c.state # "absent"
  PROVE  LET h == Handled(c, e, b)
         IN /\ h \in CaseRecords /\ Kept(c, h)
            /\ h.state = (IF IsFinal(c) THEN c.state ELSE "recovered_natural")
  <1> DEFINE scheduled == HasCancellableLink(c)
             s == HandleSuccess(c, e, scheduled)
             h == Handled(c, e, b)
  <1>1. h = IF IsFinal(c) THEN c ELSE s
    <2>1. /\ e.type \notin FailureEvents /\ e.type \in SuccessEvents
          /\ e.type \notin LinkEvents
      BY DEF FailureEvents, SuccessEvents, LinkEvents
    <2>2. QED
      BY <2>1 DEF Handled
  <1>2. Kept(c, s) /\ s.state = "recovered_natural"
    <2> HIDE DEF scheduled
    <2>1. QED
      BY DEF HandleSuccess, IsCapture, CaseRecords, Kept
  <1>3. h \in CaseRecords
    BY HandledType
  <1> HIDE DEF s, h
  <1>4. QED
    BY <1>1, <1>2, <1>3 DEF Kept, h

-----------------------------------------------------------------------------
(* The two books after each operation *)

\* The world acts on a payment: its row is still a row of this payment.
LEMMA BookAfterAct ==
  ASSUME NEW p, NEW c, NEW l, NEW K, NEW S, NEW x, BookOK(p, c, l, K, S, x),
         Sound(l), ~l.resolved, p \in K,
         NEW a, NEW n, NEW k, Effect(l, a, n, k),
         a = "retry" => c.state = "retry_scheduled",
         a = "request_consent" => c.state = "link_sent" /\ l.contacts = 0 /\ p \in S
  PROVE  BookOK(p, c, n, K, S, x)
  <1>1. /\ l.recovered = Never /\ ~l.optedOut /\ l.contacts \in Nat /\ l.attempts \in Nat
    BY DEF Sound, WellClosed, Latents
  <1>2. /\ n.code = l.code /\ n.cause = l.cause
        /\ n.contacts = l.contacts + (IF a = "request_consent" THEN 1 ELSE 0)
        /\ n.attempts = l.attempts + (IF a = "retry" THEN 1 ELSE 0)
    BY DEF Effect, Faithful, Fixed
  <1>3. a # "retry" => n.attempts = l.attempts
    BY <1>1, <1>2
  <1>4. a # "request_consent" => n.contacts = l.contacts
    BY <1>1, <1>2
  <1>5. n.contacts <= 1
    BY <1>1, <1>2, <1>4 DEF BookOK
  <1>6. p \notin S => n.contacts = 0
    BY <1>4 DEF BookOK
  <1>7. c.code \notin Named => n.attempts = 0 /\ n.contacts = 0
    BY <1>3, <1>4 DEF BookOK
  <1>8. QED
    BY <1>1, <1>2, <1>5, <1>6, <1>7 DEF BookOK

\* A retry that fails, and it alone, leaves the engine one attempt behind.
LEMMA CountAfterAct ==
  ASSUME NEW c, NEW l, Counted(c, l, 0), Sound(l), ~l.resolved,
         NEW a, NEW n, NEW k, Effect(l, a, n, k), a = "retry" => l.contacts = 0
  PROVE  Counted(c, n, IF k = "attempt_failed" THEN 1 ELSE 0)
  <1>1. l.recovered = Never /\ l.attempts \in Nat /\ l.contacts \in Nat
    BY DEF Sound, WellClosed, Latents
  <1>2. Won(l) = 0
    BY <1>1 DEF Won, ByRetry
  <1>3. c.attempts = 1 + l.attempts
    BY <1>1, <1>2 DEF Counted
  <1>4. CASE a # "retry"
    <2>1. n.attempts = l.attempts /\ ~ByRetry(n) /\ k # "attempt_failed"
      BY <1>1, <1>4 DEF Effect
    <2>2. QED
      BY <1>1, <1>3, <2>1 DEF Counted, Won
  <1>5. CASE a = "retry"
    <2>1. /\ n.attempts = l.attempts + 1 /\ n.contacts = 0
          /\ IF k = "recovered" THEN ~n.natural ELSE k = "attempt_failed"
          /\ k = "recovered" <=> n.recovered # Never
      BY <1>1, <1>5 DEF Effect, Faithful
    <2>2. ByRetry(n) <=> k = "recovered"
      BY <2>1 DEF ByRetry
    <2>3. QED
      BY <1>1, <1>3, <2>1, <2>2 DEF Counted, Won
  <1>6. QED
    BY <1>4, <1>5

\* A payment that was recovered in the end is not one whose case was stopped
\* for the right reason.
LEMMA RecoveredIsNotStopped ==
  ASSUME NEW p, NEW c, NEW l, NEW K, NEW S, NEW x, BookOK(p, c, l, K, S, x),
         Sound(l), l.recovered # Never, c.state = "stopped"
  PROVE  x # "passthrough"
  <1>1. ~l.optedOut /\ l.cause # "risk_blocked"
    BY DEF Sound, WellClosed, Possible
  <1>2. QED
    BY <1>1 DEF BookOK

\* A recovery is reported: the engine has it, unless it had stopped the case.
LEMMA BookAfterRecovery ==
  ASSUME NEW p, NEW c, NEW l, NEW K, NEW S, NEW x, BookOK(p, c, l, K, S, x),
         Sound(l), l.recovered # Never, p \in K, NEW e, EventOK(e), NEW b \in BOOLEAN,
         p \in S => e.type = "payment_link.paid" /\ e.link = c.link,
         p \notin S => e.type = "payment.captured"
  PROVE  LET h == Handled(c, e, b)
         IN BookOK(p, h, l, K, S, x) /\ Told(h, x) /\ h.attempts = c.attempts
  <1> DEFINE h == Handled(c, e, b)
  <1>0. c \in CaseRecords /\ c.state # "absent"
    BY DEF BookOK
  <1>1. c.state = "stopped" => x # "passthrough"
    BY RecoveredIsNotStopped
  <1>2. CASE p \in S
    <2>1. c.state \in { "link_sent", "recovered_by_link", "stopped" }
      BY <1>2 DEF BookOK
    <2>2. /\ h \in CaseRecords /\ Kept(c, h)
          /\ h.state = (IF c.state = "stopped" THEN "stopped" ELSE "recovered_by_link")
      BY <1>0, <1>2, <2>1, PaidByLink
    <2> HIDE DEF h
    <2>3. h.state \in { "stopped", "recovered_by_link" } /\ (h.state = "stopped" => x # "passthrough")
      BY <1>1, <2>2
    <2>4. c.code \in Named
      BY <2>1 DEF BookOK
    <2>5. BookOK(p, h, l, K, S, x)
      BY <1>2, <2>2, <2>3, <2>4 DEF BookOK, Kept, EngineStates, BooksRecovered, TimedStates
    <2>6. QED
      BY <2>2, <2>3, <2>5 DEF Told, BooksRecovered, Kept, h
  <1>3. CASE p \notin S
    <2>1. /\ h \in CaseRecords /\ Kept(c, h)
          /\ h.state = (IF IsFinal(c) THEN c.state ELSE "recovered_natural")
      BY <1>0, <1>3, PaidOnItsOwn
    <2> HIDE DEF h
    <2>2. IsFinal(c) => c.state \in { "stopped" } \cup BooksRecovered
      BY DEF BookOK, EngineStates, BooksRecovered, IsFinal, FinalStates
    <2>3. /\ h.state \in { "stopped" } \cup BooksRecovered
          /\ h.state = "stopped" => x # "passthrough"
          /\ h.state # c.state => h.state = "recovered_natural"
      BY <1>1, <2>1, <2>2 DEF BooksRecovered
    <2>4. BookOK(p, h, l, K, S, x)
      BY <1>3, <2>1, <2>3 DEF BookOK, Kept, EngineStates, BooksRecovered, TimedStates
    <2>5. QED
      BY <2>1, <2>3, <2>4 DEF Told, BooksRecovered, Kept, h
  <1>4. QED
    BY <1>2, <1>3

\* An opt-out is reported: the case is stopped.
LEMMA BookAfterOptOut ==
  ASSUME NEW p, NEW c, NEW l, NEW K, NEW S, NEW x, BookOK(p, c, l, K, S, x),
         l.optedOut, c.state = "link_sent"
  PROVE  LET h == OptedOut(c)
         IN BookOK(p, h, l, K, S, x) /\ h.state = "stopped" /\ h.attempts = c.attempts
  <1> DEFINE h == OptedOut(c)
  <1>0. c \in CaseRecords /\ c.code \in Named /\ p \in K
    BY DEF BookOK
  <1>1. /\ h \in CaseRecords /\ h.attempts = c.attempts /\ h.contacts = c.contacts
        /\ h.code = c.code /\ h.optout = c.optout
    BY <1>0, OptedOutType
  <1>2. h.state = "stopped"
    <2>1. ~IsFinal(c) /\ CanTransition(c.state, "stopped")
      BY DEF IsFinal, FinalStates, CanTransition, AllowedTransitions, States
    <2>2. QED
      BY <1>0, <2>1 DEF OptedOut, CaseRecords
  <1> HIDE DEF h
  <1>3. BookOK(p, h, l, K, S, x)
    BY <1>0, <1>1, <1>2 DEF BookOK, EngineStates, BooksRecovered, TimedStates
  <1>4. QED
    BY <1>1, <1>2, <1>3 DEF h

\* A failure is fed to the engine.
LEMMA BookAfterFeed ==
  ASSUME NEW p, NEW c, NEW l, NEW K, NEW S, NEW x, BookOK(p, c, l, K, S, x),
         Sound(l), p \in K => c.state = "retry_scheduled",
         NEW e, EventOK(e), e.type = "payment.failed", NEW b \in BOOLEAN,
         x = "passthrough" => e.code = l.code,
         x # "passthrough" => e.code \in CanonicalCodes \cup { "none" }
  PROVE  LET h == Handled(c, e, b)
         IN /\ BookOK(p, h, l, K \cup { p }, S, x)
            /\ h.attempts = c.attempts + 1
            /\ p \in K \/ MaxRecoveryAttempts >= 1 => h.attempts <= MaxRecoveryAttempts
  <1> DEFINE h == Handled(c, e, b)
  <1>0. /\ c \in CaseRecords /\ ~c.optout
        /\ c.state = "absent" \/ c.state = "retry_scheduled"
        /\ c.state = "absent" => c.attempts = 0 /\ c.code = "none"
        /\ c.state = "absent" <=> p \notin K
    BY DEF BookOK
  <1>1. /\ h \in CaseRecords /\ ~h.optout /\ h.attempts = c.attempts + 1
        /\ h.code = (IF e.code # "none" THEN e.code ELSE c.code)
        /\ h.state \in { "stopped", "manual_review", "consent_required", "cooldown",
                         "retry_scheduled" }
        /\ h.state = "stopped" => h.code \in RiskFailures
        /\ h.state \in { "consent_required", "cooldown", "retry_scheduled" } =>
             h.attempts < MaxRecoveryAttempts /\ h.code \in Named
    BY <1>0, FailureIs
  <1> HIDE DEF h
  <1>2. p \notin S /\ l.contacts = 0 /\ (p \notin K => l.attempts = 0)
    BY <1>0 DEF BookOK
  <1>3. x = "passthrough" => h.code \in { "none", l.code }
    BY <1>1 DEF BookOK
  <1>4. p \in K => h.code \in Named
    <2> SUFFICES ASSUME p \in K PROVE h.code \in Named
      OBVIOUS
    <2>1. c.code \in Named
      BY <1>0 DEF BookOK
    <2>2. "none" \notin Named /\ CanonicalCodes \subseteq Named
      BY DEF Named, CanonicalCodes, HardFailures, RiskFailures, TransientFailures
    <2>3. x = "passthrough" => c.code = l.code
      BY <2>1, <2>2 DEF BookOK
    <2>4. QED
      BY <1>1, <2>1, <2>2, <2>3
  <1>5. h.code \notin Named => h.state = "manual_review" /\ l.attempts = 0
    BY <1>1, <1>2, <1>4 DEF Named
  <1>6. h.state = "stopped" /\ x = "passthrough" => l.cause = "risk_blocked"
    <2>1. "none" \notin RiskFailures
      BY DEF RiskFailures
    <2>2. QED
      BY <1>1, <1>3, <2>1 DEF Sound, WellBuilt
  <1>7. BookOK(p, h, l, K \cup { p }, S, x)
    BY <1>1, <1>2, <1>3, <1>5, <1>6 DEF BookOK, EngineStates, BooksRecovered, TimedStates
  <1>8. p \in K \/ MaxRecoveryAttempts >= 1 => h.attempts <= MaxRecoveryAttempts
    <2>1. p \in K => c.attempts < MaxRecoveryAttempts
      BY <1>0 DEF BookOK, TimedStates
    <2>2. p \notin K => c.attempts = 0
      BY <1>0
    <2>3. c.attempts \in Nat /\ MaxRecoveryAttempts \in Nat
      BY <1>0, LimitsAssumption DEF CaseRecords
    <2>4. QED
      BY <1>1, <2>1, <2>2, <2>3
  <1>9. QED
    BY <1>1, <1>7, <1>8 DEF h

\* A tick of the engine, and the link that the adapter then presents.
LEMMA BookAfterTick ==
  ASSUME now \in Nat, NEW p, NEW c, NEW l, NEW K, NEW S, NEW x, BookOK(p, c, l, K, S, x),
         NEW cooled \in CooldownOutcomes(now)
  PROVE  LET d == Dispatched(c, cooled)
         IN /\ BookOK(p, d, l, K, S, x) /\ d.attempts = c.attempts
            /\ d.state = "stopped" <=> c.state = "stopped"
            /\ c.state \in BooksRecovered => d = c
  <1> DEFINE d == Dispatched(c, cooled)
  <1>0. c \in CaseRecords /\ ~c.optout
        /\ (c.state \in TimedStates => c.attempts < MaxRecoveryAttempts)
    BY DEF BookOK
  <1>1. /\ d \in CaseRecords /\ d.code = c.code /\ d.attempts = c.attempts /\ ~d.optout
        /\ c.state \notin Movable => d = c
        /\ c.state \in Movable =>
             \/ d.state \in TimedStates /\ c.state \in TimedStates
             \/ d.state = "manual_review"
             \/ d.state = "link_sent" /\ d.contacts >= 1
    BY <1>0, TickIs
  <1> HIDE DEF d
  <1>2. CASE c.state \notin Movable
    <2>1. d = c
      BY <1>1, <1>2
    <2>2. QED
      BY <2>1 DEF d
  <1>3. CASE c.state \in Movable
    <2>1. p \in K /\ p \notin S /\ c.code \in Named
      BY <1>3 DEF BookOK, Movable
    <2>2. /\ d.state \in { "cooldown", "retry_scheduled", "manual_review", "link_sent" }
          /\ d.state = "link_sent" => d.contacts >= 1
          /\ d.state \in TimedStates => c.state \in TimedStates
      BY <1>1, <1>3 DEF TimedStates
    <2>3. c.state # "stopped" /\ c.state \notin BooksRecovered
      BY <1>3 DEF Movable, BooksRecovered
    <2>4. d.state \in EngineStates /\ d.state # "absent" /\ d.state # "stopped"
          /\ d.state \notin BooksRecovered
      BY <2>2 DEF EngineStates, BooksRecovered
    <2>5. BookOK(p, d, l, K, S, x)
      BY <1>1, <2>1, <2>2, <2>4 DEF BookOK
    <2>6. QED
      BY <1>1, <2>3, <2>4, <2>5 DEF d
  <1>4. QED
    BY <1>2, <1>3

\* A consent link of one payment leaves the books of all in order.
LEMMA BookAfterAsk ==
  ASSUME NEW p, NEW q, NEW c, NEW l, NEW K, NEW S, NEW x, BookOK(p, c, l, K, S, x),
         p = q => c.state = "link_sent"
  PROVE  BookOK(p, c, l, K, S \cup { q }, x)
  <1>1. CASE p # q
    BY <1>1 DEF BookOK
  <1>2. CASE p = q
    <2>1. c.state = "link_sent" /\ c.contacts >= 1 /\ p \in K /\ c.code \in Named
      BY <1>2 DEF BookOK
    <2>2. QED
      BY <1>2, <2>1 DEF BookOK
  <1>3. QED
    BY <1>1, <1>2

\* The tail of a payment.
LEMMA BookAfterTail ==
  ASSUME NEW p, NEW c, NEW l, NEW K, NEW S, NEW x, BookOK(p, c, l, K, S, x),
         NEW n, Fixed(l, n), Untouched(l, n), n.optedOut = l.optedOut,
         l.recovered # Never => n.recovered # Never
  PROVE  BookOK(p, c, n, K, S, x)
  BY DEF BookOK, Fixed, Untouched

-----------------------------------------------------------------------------
(* The engine's books in every step *)

\* The two books agree at the start, when both are empty.
LEMMA BooksStart ==
  ASSUME Init
  PROVE  BooksOK /\ AgreeOK /\ (policy = "railpulse" => HandOK)
  <1>1. ASSUME NEW p \in Payments
        PROVE  /\ cases[p] = AbsentCase /\ p \notin ingested /\ p \notin consentSent
               /\ Sound(latent[p]) /\ latent[p].recovered = Never /\ ~latent[p].optedOut
               /\ latent[p].contacts = 0 /\ latent[p].attempts = 0
    <2>1. latent[p] \in Worlds
      BY DEF Init
    <2>2. Sound(latent[p]) /\ ~latent[p].resolved /\ latent[p].recovered = Never
          /\ latent[p].contacts = 0 /\ latent[p].attempts = 0
      BY <2>1, WorldsAreSound
    <2>3. QED
      BY <2>2 DEF Init, Sound, WellClosed
  <1>2. /\ AbsentCase \in CaseRecords /\ ~AbsentCase.optout /\ AbsentCase.state = "absent"
        /\ AbsentCase.attempts = 0 /\ AbsentCase.code = "none"
    BY CaseConstants DEF AbsentCase, NewCase
  <1>3. BooksOK
    BY <1>1, <1>2 DEF BooksOK, BookOK, EngineStates, TimedStates, BooksRecovered
  <1>4. AgreeOK
    BY <1>1 DEF AgreeOK
  <1>5. HandOK
    BY DEF Init, HandOK, NoDecision
  <1>6. QED
    BY <1>3, <1>4, <1>5

\* The engine's books before a step of a run of the engine.
EngineTurn == RunInv /\ policy = "railpulse" /\ BooksOK /\ HandOK /\ AgreeOK

\* A step that touches no book, and starts and ends where nothing is unsaid.
LEMMA AgreeStays ==
  ASSUME AgreeOK, UNCHANGED << cases, latent, ingested, normaliser >>,
         pc \notin { "report", "feed", "settle", "done" },
         pc' # "report", pc' = "feed" => current' \notin ingested
  PROVE  AgreeOK'
  <1>1. \A p : ~Untold(p) /\ ~Untold(p)' /\ Behind(p) = 0 /\ Behind(p)' = 0
    BY DEF Untold, Behind
  <1>2. QED
    BY <1>1 DEF AgreeOK

\* The rows stay in order while neither book is written.
LEMMA BooksStay ==
  ASSUME BooksOK, UNCHANGED << cases, latent, ingested, consentSent, normaliser >>
  PROVE  BooksOK'
  BY DEF BooksOK

\* The books agree after the next wake is taken.
LEMMA EnginePop ==
  ASSUME EngineTurn, Pop
  PROVE  BooksOK' /\ HandOK' /\ AgreeOK'
  <1>0. /\ pc = "pop" /\ UNCHANGED << scenario, latent, decision, outcome, engine >>
        /\ decision.action = "none"
        /\ \/ pc' = "pop"
           \/ pc' = "decide" /\ current' \in ingested
           \/ pc' = "feed" /\ current' \notin ingested
    <2>1. decision.action = "none"
      BY DEF EngineTurn, HandOK, Pop
    <2>2. QED
      BY <2>1 DEF Pop, EngineTurn
  <1>1. BooksOK'
    BY <1>0, BooksStay DEF EngineTurn, engine, scenario
  <1>2. HandOK'
    BY <1>0 DEF HandOK, engine
  <1>3. AgreeOK'
    BY <1>0, AgreeStays DEF EngineTurn, engine, scenario
  <1>4. QED
    BY <1>1, <1>2, <1>3

\* The books agree after a wake is set.
LEMMA EnginePush ==
  ASSUME EngineTurn, Push
  PROVE  BooksOK' /\ HandOK' /\ AgreeOK'
  <1>0. /\ pc = "push" /\ pc' = "pop" /\ decision' = NoDecision
        /\ UNCHANGED << scenario, latent, now, current, engine >>
    BY DEF Push
  <1>1. BooksOK'
    BY <1>0, BooksStay DEF EngineTurn, engine, scenario
  <1>2. HandOK'
    BY <1>0 DEF HandOK, NoDecision
  <1>3. AgreeOK'
    BY <1>0, AgreeStays DEF EngineTurn, engine, scenario
  <1>4. QED
    BY <1>1, <1>2, <1>3

\* The books agree after the heap is left.
LEMMA EngineSettle ==
  ASSUME EngineTurn, Settle
  PROVE  BooksOK' /\ HandOK' /\ AgreeOK'
  <1>0. /\ pc = "pop" /\ pc' = "settle"
        /\ UNCHANGED << scenario, latent, wake, now, decision, outcome, engine >>
    BY DEF Settle
  <1>1. BooksOK'
    BY <1>0, BooksStay DEF EngineTurn, engine, scenario
  <1>2. HandOK'
    BY <1>0 DEF HandOK
  <1>3. AgreeOK'
    BY <1>0, AgreeStays DEF EngineTurn, engine, scenario
  <1>4. QED
    BY <1>1, <1>2, <1>3

\* The books agree after an open payment ran to the horizon.
LEMMA EngineSettleOne ==
  ASSUME EngineTurn, SettleOne
  PROVE  BooksOK' /\ HandOK' /\ AgreeOK'
  <1> DEFINE l == latent[current]
             n == latent'[current]
  <1>0. /\ pc = "settle" /\ pc' \in { "settle", "done" }
        /\ UNCHANGED << scenario, wake, now, decision, outcome, engine >>
    BY DEF SettleOne
  <1>1. /\ OneChanges(n) /\ Untouched(l, n)
        /\ n.optedOut = l.optedOut /\ (l.recovered # Never => n.recovered # Never)
    BY SettleEffect DEF EngineTurn
  <1>2. /\ current \in Payments /\ Fixed(l, n)
        /\ \A p \in Payments : p # current => latent'[p] = latent[p]
    BY <1>1, OneChangesWorld DEF EngineTurn, RunInv, OneChanges
  <1> HIDE DEF l, n
  <1>3. BooksOK'
    <2> SUFFICES ASSUME NEW p \in Payments
                 PROVE  BookOK(p, cases[p], latent'[p], ingested, consentSent, normaliser)
      BY <1>0 DEF BooksOK, engine, scenario
    <2>1. BookOK(p, cases[p], latent[p], ingested, consentSent, normaliser)
      BY DEF EngineTurn, BooksOK
    <2>2. CASE p = current
      BY <1>1, <1>2, <2>1, <2>2, BookAfterTail DEF l, n
    <2>3. CASE p # current
      BY <1>2, <2>1, <2>3
    <2>4. QED
      BY <2>2, <2>3
  <1>4. HandOK'
    BY <1>0 DEF HandOK
  <1>5. AgreeOK'
    <2>1. \A p \in Payments : latent'[p].optedOut = latent[p].optedOut
      BY <1>1, <1>2 DEF l, n
    <2>2. \A p : ~Untold(p)
      BY <1>0 DEF Untold
    <2>3. QED
      BY <1>0, <2>1, <2>2 DEF EngineTurn, AgreeOK, engine, scenario
  <1>6. QED
    BY <1>3, <1>4, <1>5

\* The books agree after a scheduled retry is read.
LEMMA EngineDecideRetry ==
  ASSUME EngineTurn, DecideRetry
  PROVE  BooksOK' /\ HandOK' /\ AgreeOK'
  <1>0. /\ pc = "decide" /\ pc' = "act" /\ cases[current].state = "retry_scheduled"
        /\ decision'.action = "retry"
        /\ UNCHANGED << scenario, latent, wake, now, current, outcome, engine >>
    BY DEF DecideRetry, Want
  <1>1. BooksOK'
    BY <1>0, BooksStay DEF EngineTurn, engine, scenario
  <1>2. HandOK'
    BY <1>0 DEF EngineTurn, HandOK, engine
  <1>3. AgreeOK'
    BY <1>0, AgreeStays DEF EngineTurn, engine, scenario
  <1>4. QED
    BY <1>1, <1>2, <1>3

\* The books agree after the engine's tick.
LEMMA EngineDecideDispatch ==
  ASSUME EngineTurn, DecideDispatch
  PROVE  BooksOK' /\ HandOK' /\ AgreeOK'
  <1>0. /\ pc = "decide" /\ pc' = "act" /\ current \in ingested /\ now \in Nat
        /\ UNCHANGED << scenario, latent, wake, now, current, outcome, ingested,
                        cache, stats >>
        /\ consentSent' = IF decision'.action = "request_consent"
                          THEN consentSent \cup { current } ELSE consentSent
    BY DEF DecideDispatch, EngineTurn, HandOK, RunInv, ClockOK
  <1>1. /\ current \in Payments
        /\ \E cooled \in [ Payments -> CooldownOutcomes(now) ] :
               \A p \in Payments : cases'[p] = Dispatched(cases[p], cooled[p])
        /\ decision' = DecisionFor(cases'[current])
        /\ decision'.action \in { "wait", "abandon", "request_consent" }
    BY DispatchEffect DEF EngineTurn
  <1>2. ASSUME NEW p \in Payments
        PROVE  /\ BookOK(p, cases'[p], latent[p], ingested, consentSent, normaliser)
               /\ cases'[p].attempts = cases[p].attempts
               /\ cases'[p].state = "stopped" <=> cases[p].state = "stopped"
               /\ cases[p].state \in BooksRecovered => cases'[p] = cases[p]
    <2>1. BookOK(p, cases[p], latent[p], ingested, consentSent, normaliser)
      BY DEF EngineTurn, BooksOK
    <2>2. PICK cooled \in CooldownOutcomes(now) : cases'[p] = Dispatched(cases[p], cooled)
      BY <1>1
    <2>3. QED
      BY <1>0, <2>1, <2>2, BookAfterTick
  <1>3. decision'.action = "request_consent" =>
           cases'[current].state = "link_sent" /\ current \notin consentSent
    <2> DEFINE c == cases'[current]
    <2>1. decision'.action = DecisionFor(c).action
      BY <1>1
    <2> HIDE DEF c
    <2>2. DecisionFor(c).action = "request_consent" =>
             c.state = "link_sent" /\ current \notin consentSent
      BY DEF DecisionFor, Want, Terminal
    <2>3. QED
      BY <2>1, <2>2 DEF c
  <1>4. BooksOK'
    <2> SUFFICES ASSUME NEW p \in Payments
                 PROVE  BookOK(p, cases'[p], latent[p], ingested, consentSent', normaliser)
      BY <1>0 DEF BooksOK, scenario
    <2>1. CASE decision'.action = "request_consent"
      BY <1>0, <1>2, <1>3, <2>1, BookAfterAsk
    <2>2. CASE decision'.action # "request_consent"
      BY <1>0, <1>2, <2>2
    <2>3. QED
      BY <2>1, <2>2
  <1>5. HandOK'
    <2>1. decision'.action = "request_consent" =>
             /\ cases'[current].state = "link_sent" /\ latent[current].contacts = 0
             /\ current \in consentSent'
      BY <1>0, <1>1, <1>3 DEF EngineTurn, BooksOK, BookOK
    <2>2. decision'.action # "retry"
      BY <1>1
    <2>3. QED
      BY <1>0, <2>1, <2>2 DEF HandOK
  <1>6. AgreeOK'
    <2> SUFFICES ASSUME NEW p \in Payments
                 PROVE  /\ latent[p].optedOut => cases'[p].state = "stopped"
                        /\ latent[p].recovered # Never => Told(cases'[p], normaliser)
                        /\ p \in ingested => Counted(cases'[p], latent[p], 0)
                        /\ p \in ingested /\ MaxRecoveryAttempts >= 1 =>
                             cases'[p].attempts <= MaxRecoveryAttempts
      <3>1. \A p : Behind(p)' = 0
        BY <1>0 DEF Behind
      <3>2. QED
        BY <1>0, <3>1 DEF AgreeOK, scenario
    <2>1. ~Untold(p) /\ Behind(p) = 0
      BY <1>0 DEF Untold, Behind
    <2>2. QED
      BY <1>0, <1>2, <2>1 DEF EngineTurn, AgreeOK, Told, Counted
  <1>7. QED
    BY <1>4, <1>5, <1>6

\* The books agree after the world has acted, but for what is to be reported.
LEMMA EngineAct ==
  ASSUME EngineTurn, Act
  PROVE  BooksOK' /\ HandOK' /\ AgreeOK'
  <1> DEFINE l == latent[current]
             n == latent'[current]
             c == cases[current]
             a == decision.action
  <1>0. /\ pc = "act" /\ pc' = "report"
        /\ UNCHANGED << scenario, wake, now, current, decision, engine >>
    BY DEF Act, EngineTurn
  <1>1. OneChanges(n) /\ Effect(l, a, n, outcome') /\ ~l.resolved
    BY ActEffect DEF EngineTurn
  <1>2. /\ current \in Payments /\ Sound(l)
        /\ \A p \in Payments : p # current => latent'[p] = latent[p]
    BY <1>1, OneChangesWorld DEF EngineTurn, RunInv, OneChanges, WorldOK
  <1>3. /\ current \in ingested
        /\ a = "retry" => c.state = "retry_scheduled"
        /\ a = "request_consent" =>
             c.state = "link_sent" /\ l.contacts = 0 /\ current \in consentSent
    BY <1>0 DEF EngineTurn, HandOK
  <1>4. BookOK(current, c, l, ingested, consentSent, normaliser)
    BY <1>2 DEF EngineTurn, BooksOK
  <1>5. a = "retry" => l.contacts = 0
    BY <1>3, <1>4 DEF BookOK
  <1>6. Counted(c, l, 0)
    <2>1. Behind(current) = 0
      BY <1>0 DEF Behind
    <2>2. QED
      BY <1>0, <1>2, <1>3, <2>1 DEF EngineTurn, AgreeOK
  <1> HIDE DEF l, n, c, a
  <1>7. BookOK(current, c, n, ingested, consentSent, normaliser)
    BY <1>1, <1>2, <1>3, <1>4, BookAfterAct
  <1>8. Counted(c, n, IF outcome' = "attempt_failed" THEN 1 ELSE 0)
    BY <1>1, <1>2, <1>5, <1>6, CountAfterAct
  <1>9. BooksOK'
    <2> SUFFICES ASSUME NEW p \in Payments
                 PROVE  BookOK(p, cases[p], latent'[p], ingested, consentSent, normaliser)
      BY <1>0 DEF BooksOK, engine, scenario
    <2>1. CASE p = current
      BY <1>7, <2>1 DEF n, c
    <2>2. CASE p # current
      BY <1>2, <2>2 DEF EngineTurn, BooksOK
    <2>3. QED
      BY <2>1, <2>2
  <1>10. HandOK'
    <2>1. /\ outcome' = "attempt_failed" => a = "retry"
          /\ outcome' = "opted_out" <=> n.optedOut
          /\ outcome' = "opted_out" => a = "request_consent"
          /\ outcome' = "recovered" <=> n.recovered # Never
      BY <1>1 DEF Effect, Faithful
    <2>2. QED
      BY <1>0, <1>3, <2>1 DEF HandOK, engine, n, c, a
  <1>11. AgreeOK'
    <2> SUFFICES ASSUME NEW p \in Payments
                 PROVE  /\ latent'[p].optedOut => cases[p].state = "stopped" \/ p = current
                        /\ latent'[p].recovered # Never =>
                             Told(cases[p], normaliser) \/ p = current
                        /\ p \in ingested => Counted(cases[p], latent'[p], Behind(p)')
                        /\ p \in ingested /\ MaxRecoveryAttempts >= 1 =>
                             cases[p].attempts <= MaxRecoveryAttempts
      BY <1>0 DEF AgreeOK, engine, scenario, Untold
    <2>1. p \in ingested /\ MaxRecoveryAttempts >= 1 => cases[p].attempts <= MaxRecoveryAttempts
      BY DEF EngineTurn, AgreeOK
    <2>2. CASE p = current
      <3>1. Behind(p)' = IF outcome' = "attempt_failed" THEN 1 ELSE 0
        BY <1>0, <2>2 DEF Behind
      <3>2. QED
        BY <1>8, <2>1, <2>2, <3>1 DEF n, c
    <2>3. CASE p # current
      <3>1. Behind(p)' = 0 /\ Behind(p) = 0 /\ ~Untold(p)
        BY <1>0, <2>3 DEF Behind, Untold
      <3>2. QED
        BY <1>0, <1>2, <2>1, <2>3, <3>1 DEF EngineTurn, AgreeOK
    <2>4. QED
      BY <2>2, <2>3
  <1>12. QED
    BY <1>9, <1>10, <1>11

\* The books agree after a failure is fed.
LEMMA EngineFeed ==
  ASSUME EngineTurn, Feed
  PROVE  BooksOK' /\ HandOK' /\ AgreeOK'
  <1> DEFINE l == latent[current]
             c == cases[current]
             h == cases'[current]
  <1>0. /\ pc = "feed"
        /\ pc' = IF decision.action = "retry" THEN "push" ELSE "decide"
        /\ UNCHANGED << scenario, latent, wake, now, current, decision, outcome,
                        consentSent >>
    BY DEF Feed
  <1>1. /\ current \in Payments /\ ingested' = ingested \cup { current }
        /\ cases \in [ Payments -> CaseRecords ]
        /\ Sound(l) /\ ~l.resolved /\ l.recovered = Never
    <2>1. current \in Payments /\ ingested' = ingested \cup { current }
      BY FeedEffect DEF EngineTurn
    <2>2. QED
      BY <1>0, <2>1 DEF EngineTurn, RunInv, RowsOK, WorldOK, TurnOK, Sound, WellClosed
  <1>2. PICK answer \in Answers(normaliser, Labels), degraded \in BOOLEAN :
           LET n == Normalised(answer)
               e == Event("payment.failed", n.label, NoLink)
           IN /\ EventOK(e)
              /\ cases' = [ cases EXCEPT ![current] = Handled(c, e, degraded) ]
              /\ h = Handled(c, e, degraded)
              /\ IF normaliser = "passthrough" THEN n.label = l.code
                 ELSE n.label \in CanonicalCodes \cup { "none" }
    BY FeedEffect DEF EngineTurn
  <1> DEFINE label == Normalised(answer).label
             e == Event("payment.failed", label, NoLink)
  <1>3. /\ EventOK(e) /\ h = Handled(c, e, degraded)
        /\ normaliser = "passthrough" => label = l.code
        /\ normaliser # "passthrough" => label \in CanonicalCodes \cup { "none" }
    BY <1>2
  <1>4. \A p \in Payments : p # current => cases'[p] = cases[p]
    <2> DEFINE v == Handled(c, e, degraded)
    <2>1. cases' = [ cases EXCEPT ![current] = v ]
      BY <1>2
    <2> HIDE DEF v
    <2>2. QED
      BY <1>1, <2>1
  <1> HIDE DEF label
  <1>5. e.type = "payment.failed" /\ e.code = label
    BY DEF Event
  <1>6. /\ current \in ingested => c.state = "retry_scheduled" /\ decision.action = "retry"
        /\ current \notin ingested => decision.action = "none"
    BY <1>0 DEF EngineTurn, HandOK
  <1>7. BookOK(current, c, l, ingested, consentSent, normaliser)
    BY <1>1 DEF EngineTurn, BooksOK
  <1> HIDE DEF e, l, c, h
  <1>8. /\ BookOK(current, h, l, ingested \cup { current }, consentSent, normaliser)
        /\ h.attempts = c.attempts + 1
        /\ current \in ingested \/ MaxRecoveryAttempts >= 1 => h.attempts <= MaxRecoveryAttempts
    <2>1. /\ current \in ingested => c.state = "retry_scheduled"
          /\ normaliser = "passthrough" => e.code = l.code
          /\ normaliser # "passthrough" => e.code \in CanonicalCodes \cup { "none" }
      BY <1>3, <1>5, <1>6
    <2> DEFINE v == Handled(c, e, degraded)
    <2>2. /\ BookOK(current, v, l, ingested \cup { current }, consentSent, normaliser)
          /\ v.attempts = c.attempts + 1
          /\ current \in ingested \/ MaxRecoveryAttempts >= 1 => v.attempts <= MaxRecoveryAttempts
      <3>1. Sound(l) /\ EventOK(e) /\ e.type = "payment.failed" /\ degraded \in BOOLEAN
        BY <1>1, <1>3, <1>5
      <3>2. QED
        BY ONLY <2>1, <3>1, <1>7, BookAfterFeed
    <2>3. h = v
      BY <1>3
    <2> HIDE DEF v
    <2>4. QED
      BY <2>2, <2>3
  <1>9. Counted(h, l, 0)
    <2>0. l.attempts \in Nat /\ c.attempts \in Nat /\ Won(l) = 0
      BY <1>1, <1>7 DEF Sound, Latents, BookOK, CaseRecords, Won, ByRetry
    <2>1. CASE current \in ingested
      <3>1. Behind(current) = 1
        BY <1>0, <2>1 DEF Behind
      <3>2. Counted(c, l, 1)
        BY <1>0, <1>1, <2>1, <3>1 DEF EngineTurn, AgreeOK, c, l
      <3>3. QED
        BY <1>8, <2>0, <3>2 DEF Counted
    <2>2. CASE current \notin ingested
      <3>1. l.attempts = 0 /\ c.attempts = 0
        BY <1>7, <2>2 DEF BookOK
      <3>2. QED
        BY <1>8, <2>0, <3>1 DEF Counted
    <2>3. QED
      BY <2>1, <2>2
  <1>10. BooksOK'
    <2> SUFFICES ASSUME NEW p \in Payments
                 PROVE  BookOK(p, cases'[p], latent[p], ingested', consentSent, normaliser)
      BY <1>0 DEF BooksOK, scenario
    <2>1. CASE p = current
      BY <1>1, <1>8, <2>1 DEF h, l
    <2>2. CASE p # current
      <3>1. BookOK(p, cases[p], latent[p], ingested, consentSent, normaliser)
        BY DEF EngineTurn, BooksOK
      <3>2. p \in ingested' <=> p \in ingested
        BY <1>1, <2>2
      <3>3. cases'[p] = cases[p]
        BY <1>4, <2>2
      <3>4. QED
        BY <3>1, <3>2, <3>3 DEF BookOK
    <2>3. QED
      BY <2>1, <2>2
  <1>11. HandOK'
    <2>1. pc' = "push" \/ (pc' = "decide" /\ current' \in ingested')
      BY <1>0, <1>1
    <2>2. QED
      BY <2>1 DEF HandOK
  <1>12. AgreeOK'
    <2> SUFFICES ASSUME NEW p \in Payments
                 PROVE  /\ latent[p].optedOut => cases'[p].state = "stopped"
                        /\ latent[p].recovered # Never => Told(cases'[p], normaliser)
                        /\ p \in ingested' => Counted(cases'[p], latent[p], 0)
                        /\ p \in ingested' /\ MaxRecoveryAttempts >= 1 =>
                             cases'[p].attempts <= MaxRecoveryAttempts
      <3>1. \A p : Behind(p)' = 0
        BY <1>0 DEF Behind
      <3>2. QED
        BY <1>0, <3>1 DEF AgreeOK, scenario
    <2>1. CASE p = current
      <3>1. ~l.optedOut
        BY <1>1 DEF Sound, WellClosed
      <3>2. QED
        BY <1>1, <1>8, <1>9, <2>1, <3>1 DEF h, l
    <2>2. CASE p # current
      <3>1. ~Untold(p) /\ Behind(p) = 0
        BY <1>0, <2>2 DEF Untold, Behind
      <3>2. p \in ingested' <=> p \in ingested
        BY <1>1, <2>2
      <3>3. cases'[p] = cases[p]
        BY <1>4, <2>2
      <3>4. QED
        BY <1>0, <3>1, <3>2, <3>3 DEF EngineTurn, AgreeOK
    <2>3. QED
      BY <2>1, <2>2
  <1>13. QED
    BY <1>10, <1>11, <1>12

\* The books agree after an outcome is reported.
LEMMA EngineReport ==
  ASSUME EngineTurn, Report
  PROVE  BooksOK' /\ HandOK' /\ AgreeOK'
  <1> DEFINE l == latent[current]
             c == cases[current]
             h == cases'[current]
  <1>0. /\ pc = "report"
        /\ pc' = IF outcome = "attempt_failed" THEN "feed" ELSE "push"
        /\ UNCHANGED << scenario, latent, wake, now, current, decision, outcome,
                        ingested, consentSent, cache, stats >>
    BY DEF Report
  <1>1. /\ current \in Payments /\ c \in CaseRecords /\ EventOK(PaidEvent)
        /\ \A p \in Payments : p # current => cases'[p] = cases[p]
        /\ outcome = "recovered" => h = Handled(c, PaidEvent, FALSE)
        /\ outcome = "opted_out" => h = OptedOut(c)
        /\ outcome \notin { "recovered", "opted_out" } => h = c
    BY ReportEffect DEF EngineTurn
  <1>2. /\ current \in ingested
        /\ outcome = "attempt_failed" => /\ c.state = "retry_scheduled"
                                         /\ decision.action = "retry"
        /\ outcome = "opted_out" <=> l.optedOut
        /\ outcome = "opted_out" => c.state = "link_sent"
        /\ outcome = "recovered" <=> l.recovered # Never
    BY <1>0 DEF EngineTurn, HandOK
  <1>3. /\ BookOK(current, c, l, ingested, consentSent, normaliser)
        /\ Sound(l) /\ Counted(c, l, Behind(current))
        /\ MaxRecoveryAttempts >= 1 => c.attempts <= MaxRecoveryAttempts
    BY <1>0, <1>1, <1>2 DEF EngineTurn, BooksOK, RunInv, WorldOK, AgreeOK
  <1>4. IF current \in consentSent
        THEN PaidEvent.type = "payment_link.paid" /\ PaidEvent.link = c.link
        ELSE PaidEvent.type = "payment.captured"
    BY DEF PaidEvent, Event
  <1>5. Behind(current)' = Behind(current)
    BY <1>0, <1>2 DEF Behind
  <1> HIDE DEF l, c, h
  <1>6. /\ BookOK(current, h, l, ingested, consentSent, normaliser)
        /\ h.attempts = c.attempts
        /\ l.optedOut => h.state = "stopped"
        /\ l.recovered # Never => Told(h, normaliser)
        /\ outcome = "attempt_failed" => h.state = "retry_scheduled"
    <2>1. CASE outcome = "recovered"
      <3>1. ~l.optedOut
        BY <1>2, <1>3, <2>1 DEF Sound, WellClosed
      <3> DEFINE e == PaidEvent
                 b == FALSE
                 v == Handled(c, e, b)
      <3>2. h = v /\ b \in BOOLEAN
        BY <1>1, <2>1
      <3>3. /\ current \in consentSent =>
                 e.type = "payment_link.paid" /\ e.link = c.link
            /\ current \notin consentSent => e.type = "payment.captured"
            /\ EventOK(e)
        BY <1>1, <1>4
      <3> HIDE DEF e, b
      <3>4. /\ BookOK(current, v, l, ingested, consentSent, normaliser)
            /\ Told(v, normaliser) /\ v.attempts = c.attempts
        <4>1. Sound(l) /\ l.recovered # Never /\ current \in ingested
          BY <1>2, <1>3, <2>1
        <4>2. BookOK(current, c, l, ingested, consentSent, normaliser)
          BY <1>3
        <4>3. QED
          BY ONLY <3>2, <3>3, <4>1, <4>2, BookAfterRecovery
      <3> HIDE DEF v
      <3>5. QED
        BY <2>1, <3>1, <3>2, <3>4
    <2>2. CASE outcome = "opted_out"
      BY <1>1, <1>2, <1>3, <2>2, BookAfterOptOut
    <2>3. CASE outcome \notin { "recovered", "opted_out" }
      BY <1>1, <1>2, <1>3, <2>3
    <2>4. QED
      BY <2>1, <2>2, <2>3
  <1>7. BooksOK'
    <2> SUFFICES ASSUME NEW p \in Payments
                 PROVE  BookOK(p, cases'[p], latent[p], ingested, consentSent, normaliser)
      BY <1>0 DEF BooksOK, scenario
    <2>1. CASE p = current
      BY <1>6, <2>1 DEF h, l
    <2>2. CASE p # current
      BY <1>1, <2>2 DEF EngineTurn, BooksOK
    <2>3. QED
      BY <2>1, <2>2
  <1>8. HandOK'
    BY <1>0, <1>2, <1>6 DEF HandOK, h
  <1>9. AgreeOK'
    <2> SUFFICES ASSUME NEW p \in Payments
                 PROVE  /\ latent[p].optedOut => cases'[p].state = "stopped"
                        /\ latent[p].recovered # Never => Told(cases'[p], normaliser)
                        /\ p \in ingested => Counted(cases'[p], latent[p], Behind(p)')
                        /\ p \in ingested /\ MaxRecoveryAttempts >= 1 =>
                             cases'[p].attempts <= MaxRecoveryAttempts
      BY <1>0 DEF AgreeOK, scenario
    <2>1. CASE p = current
      <3>1. Counted(h, l, Behind(current)')
        BY <1>3, <1>5, <1>6 DEF Counted
      <3>2. Behind(p)' = Behind(current)'
        BY <1>0, <2>1 DEF Behind
      <3>3. Counted(cases'[p], latent[p], Behind(p)')
        BY <2>1, <3>1, <3>2 DEF h, l
      <3>4. /\ latent[p].optedOut => cases'[p].state = "stopped"
            /\ latent[p].recovered # Never => Told(cases'[p], normaliser)
            /\ MaxRecoveryAttempts >= 1 => cases'[p].attempts <= MaxRecoveryAttempts
        BY <1>3, <1>6, <2>1 DEF h, l, c
      <3>5. QED
        BY <3>3, <3>4
    <2>2. CASE p # current
      <3>1. ~Untold(p) /\ Behind(p)' = 0 /\ Behind(p) = 0
        BY <1>0, <2>2 DEF Untold, Behind
      <3>2. cases'[p] = cases[p]
        BY <1>1, <2>2
      <3>3. QED
        BY <1>0, <3>1, <3>2 DEF EngineTurn, AgreeOK
    <2>3. QED
      BY <2>1, <2>2
  <1>10. QED
    BY <1>7, <1>8, <1>9

\* The books agree after a step of nothing.
LEMMA EngineStutters ==
  ASSUME EngineTurn, UNCHANGED vars
  PROVE  BooksOK' /\ HandOK' /\ AgreeOK'
  <1>0. UNCHANGED << policy, normaliser, latent, pc, current, decision, outcome, cases,
                     ingested, consentSent >>
    BY DEF vars, scenario, engine
  <1>1. \A p : (Untold(p)' <=> Untold(p)) /\ Behind(p)' = Behind(p)
    BY <1>0 DEF Untold, Behind
  <1>2. AgreeOK'
    BY <1>0, <1>1 DEF EngineTurn, AgreeOK
  <1>3. BooksOK' /\ HandOK'
    BY <1>0, BooksStay DEF EngineTurn, HandOK
  <1>4. QED
    BY <1>2, <1>3

\* While a run of the engine lasts, its two books tell the same story.
EngineInv == policy = "railpulse" => BooksOK /\ HandOK /\ AgreeOK

\* Every step of a run of the engine keeps its two books together.
LEMMA EngineSteps ==
  ASSUME RunInv, EngineInv, [Next]_vars
  PROVE  EngineInv'
  <1>1. policy' = policy
    BY DEF Next, Step, Done, Pop, Act, Push, Settle, SettleOne, Baseline, Feed,
           DecideRetry, DecideDispatch, Report, vars, scenario
  <1> SUFFICES ASSUME policy = "railpulse"
               PROVE  BooksOK' /\ HandOK' /\ AgreeOK'
    BY <1>1 DEF EngineInv
  <1>2. EngineTurn
    BY DEF EngineTurn, EngineInv
  <1>3. CASE Pop            BY <1>2, <1>3, EnginePop
  <1>4. CASE Act            BY <1>2, <1>4, EngineAct
  <1>5. CASE Push           BY <1>2, <1>5, EnginePush
  <1>6. CASE Settle         BY <1>2, <1>6, EngineSettle
  <1>7. CASE SettleOne      BY <1>2, <1>7, EngineSettleOne
  <1>8. CASE Baseline
    BY <1>2, <1>8 DEF EngineTurn, HandOK, Baseline
  <1>9. CASE Feed           BY <1>2, <1>9, EngineFeed
  <1>10. CASE DecideRetry   BY <1>2, <1>10, EngineDecideRetry
  <1>11. CASE DecideDispatch
    BY <1>2, <1>11, EngineDecideDispatch
  <1>12. CASE Report        BY <1>2, <1>12, EngineReport
  <1>13. CASE UNCHANGED vars
    BY <1>2, <1>13, EngineStutters
  <1>14. QED
    BY <1>3, <1>4, <1>5, <1>6, <1>7, <1>8, <1>9, <1>10, <1>11, <1>12, <1>13
       DEF Next, Step, Done

\* The rows, the payment at hand and the agreement of the books are kept.
THEOREM EngineIsFaithful == Spec => []EngineInv
  <1>1. Init => EngineInv
    BY BooksStart DEF EngineInv
  <1>2. RunInv /\ EngineInv /\ [Next]_vars => EngineInv'
    BY EngineSteps
  <1>3. QED
    BY <1>1, <1>2, RunIsSound, PTL DEF Spec

\* Between two wakes the engine claims no recovery that the world does not
\* have, and has every one but those of cases that a wrong label stopped.
THEOREM RecoveriesAreBooked == Spec => []EngineBooksRecoveries
  <1>1. EngineInv => EngineBooksRecoveries
    <2> SUFFICES ASSUME EngineInv, policy = "railpulse", pc = "pop", NEW p \in Payments
                 PROVE  /\ BookedRecovered(p) => latent[p].recovered # Never
                        /\ latent[p].recovered # Never =>
                             \/ BookedRecovered(p)
                             \/ cases[p].state = "stopped" /\ normaliser # "passthrough"
      BY DEF EngineBooksRecoveries
    <2>1. /\ BookOK(p, cases[p], latent[p], ingested, consentSent, normaliser)
          /\ latent[p].recovered # Never => Told(cases[p], normaliser)
      BY DEF EngineInv, BooksOK, AgreeOK, Untold
    <2>2. QED
      BY <2>1 DEF BookOK, Told, BookedRecovered, BooksRecovered
  <1>2. QED
    BY <1>1, EngineIsFaithful, PTL

\* When the engine is allowed one attempt at all, both books count the same
\* attempts and stay within its limit.
THEOREM BothCountTheSame ==
  ASSUME MaxRecoveryAttempts >= 1
  PROVE  Spec => []AttemptsAgree
  <1>1. RunInv /\ EngineInv => AttemptsAgree
    <2> SUFFICES ASSUME RunInv, EngineInv, policy = "railpulse", pc = "pop",
                        NEW p \in ingested
                 PROVE  /\ cases[p].attempts
                             = 1 + latent[p].attempts - Won(latent[p])
                        /\ cases[p].attempts <= MaxRecoveryAttempts
      BY DEF AttemptsAgree, Won, ByRetry
    <2>1. p \in Payments
      BY DEF RunInv, RowsOK
    <2>2. /\ Counted(cases[p], latent[p], Behind(p)) /\ Behind(p) = 0
          /\ cases[p].attempts <= MaxRecoveryAttempts
      BY <2>1 DEF EngineInv, AgreeOK, Behind
    <2>3. latent[p].attempts \in Nat
      BY <2>1 DEF RunInv, WorldOK, Latents
    <2>4. Won(latent[p]) \in { 0, 1 }
      BY DEF Won
    <2>5. QED
      BY <2>2, <2>3, <2>4 DEF Counted
  <1>2. QED
    BY <1>1, RunIsSound, EngineIsFaithful, PTL

\* Every contact the customer feels was charged to the budget of the case, and
\* a customer who opted out has a stopped case at the next wake.
THEOREM ContactsAreBooked == Spec => []NoUnbookedContact
  <1>1. RunInv /\ EngineInv => NoUnbookedContact
    <2> SUFFICES ASSUME RunInv, EngineInv, policy = "railpulse", NEW p \in Payments
                 PROVE  /\ latent[p].contacts <= cases[p].contacts
                        /\ latent[p].optedOut /\ pc = "pop" => cases[p].state = "stopped"
      BY DEF NoUnbookedContact
    <2>1. BookOK(p, cases[p], latent[p], ingested, consentSent, normaliser)
      BY DEF EngineInv, BooksOK
    <2>2. latent[p].optedOut /\ pc = "pop" => cases[p].state = "stopped"
      BY DEF EngineInv, AgreeOK, Untold
    <2>3. cases[p].contacts \in Nat /\ latent[p].contacts \in Nat
      BY DEF RunInv, RowsOK, WorldOK, CaseRecords, Latents
    <2>4. /\ p \in consentSent => cases[p].contacts >= 1
          /\ p \notin consentSent => latent[p].contacts = 0
          /\ latent[p].contacts <= 1
      BY <2>1 DEF BookOK
    <2>5. QED
      BY <2>2, <2>3, <2>4
  <1>2. QED
    BY <1>1, RunIsSound, EngineIsFaithful, PTL

\* A failure that nobody could name is not retried and bothers no customer.
THEOREM UnnamedIsLeftAlone == Spec => []UnlabelledIsLeftAlone
  <1>1. EngineInv => UnlabelledIsLeftAlone
    BY DEF EngineInv, BooksOK, BookOK, UnlabelledIsLeftAlone, Named
  <1>2. QED
    BY <1>1, EngineIsFaithful, PTL

=============================================================================
