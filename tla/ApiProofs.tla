----------------------------- MODULE ApiProofs ------------------------------
(***************************************************************************)
(* For every set of webhooks, threads and faults: the webhook route counts *)
(* each event once and acknowledges what it applied, and the preview route *)
(* shows nothing the model slipped in.                                     *)
(***************************************************************************)
EXTENDS Api, CaseProofs, FiniteSetTheorems

-----------------------------------------------------------------------------
(* Types *)

\* What a thread holds while it serves a request.
RequestOK(q) ==
    /\ DOMAIN q = { "pc", "hook", "key", "status", "provider", "draft" }
    /\ q.pc \in { "idle", "ingest", "answer", "draft" }
    /\ q.hook \in Webhooks \cup { NoHook }
    /\ q.key \in Keys \cup { Missing }
    /\ q.pc = "ingest" => /\ q.hook \in Webhooks
                          /\ Supported(Hook[q.hook].body)
                          /\ LogicalKey(Hook[q.hook].body) # Missing
    /\ q.pc = "draft" => q.key \in Keys /\ q.hook = NoHook

\* TypeOK with the requests and the absent rows spelled out.
TypeInv ==
    /\ TypeOK
    /\ IsFiniteSet(claims)
    /\ DOMAIN request = Requests
    /\ \A r \in Requests : RequestOK(request[r])
    /\ \A k \in Keys : cases[k].state = "absent" => cases[k].attempts = 0

\* A thread at rest has a well-formed request that names nothing.
LEMMA IdleOK == RequestOK(IdleRequest) /\ IdleRequest.pc = "idle"
                /\ IdleRequest.hook = NoHook /\ IdleRequest.key = Missing
  BY DEF RequestOK, IdleRequest

\* An event of a supported webhook is one the handlers expect.
LEMMA EventsOK ==
  ASSUME NEW w \in Webhooks, Supported(Hook[w].body)
  PROVE  /\ EventOK(EventOf[w])
         /\ EventOf[w].type = Hook[w].body.event
         /\ EventOf[w].key = LogicalKey(Hook[w].body)
  <1> DEFINE b == Hook[w].body
  <1>1. EventOf[w] = Normalized(b, Received)
    BY DEF EventOf
  <1>2. OccurredAt(b, Received) \in Time
    BY ApiAssumption, BodiesAssumption DEF OccurredAt, Time
  <1>3. b.code \in FailureCodes \cup { Missing } /\ b.captured \in BOOLEAN
    BY BodiesAssumption
  <1>4. b.event \in EventTypes
    BY DEF Supported
  <1> HIDE DEF b
  <1>5. QED
    BY <1>1, <1>2, <1>3, <1>4 DEF Normalized, EventOK, NoLink, b

\* A supported webhook with a key has a row.
LEMMA KeysOK ==
  ASSUME NEW w \in Webhooks, LogicalKey(Hook[w].body) # Missing
  PROVE  LogicalKey(Hook[w].body) \in Keys
  BY DEF Keys

\* A webhook enters the engine only when the route gives it 200.
LEMMA RouteOK ==
  ASSUME NEW w \in Webhooks, NEW s \in BOOLEAN, StatusOf[w][s] = 200
  PROVE  Supported(Hook[w].body) /\ LogicalKey(Hook[w].body) # Missing
  BY DEF StatusOf, RouteStatus

-----------------------------------------------------------------------------
(* What a thread turns to *)

\* A webhook that is let in, an answer that is due to it, a preview that is
\* being drafted, one that is refused, and one that is shown.
Admitted(w) == [ IdleRequest EXCEPT !.pc = "ingest", !.hook = w, !.status = 200 ]
Answered(h, s) == [ IdleRequest EXCEPT !.pc = "answer", !.hook = h, !.status = s ]
Drafting(k, p) == [ IdleRequest EXCEPT !.pc = "draft", !.key = k, !.provider = p ]
Refused(s) == [ IdleRequest EXCEPT !.pc = "answer", !.status = s ]
Shown(q, d) == [ q EXCEPT !.pc = "answer", !.status = 200, !.draft = d ]

Turned(r, q) == request' = [ request EXCEPT ![r] = q ]

Fields == { "pc", "hook", "key", "status", "provider", "draft" }

\* What each of them holds.
LEMMA AdmittedRow ==
  ASSUME NEW w
  PROVE  LET q == Admitted(w)
         IN DOMAIN q = Fields /\ q.pc = "ingest" /\ q.hook = w /\ q.key = Missing
  BY DEF Admitted, IdleRequest, Fields

\* The request of a webhook answered at once.
LEMMA AnsweredRow ==
  ASSUME NEW h, NEW s
  PROVE  LET q == Answered(h, s)
         IN /\ DOMAIN q = Fields /\ q.pc = "answer" /\ q.hook = h /\ q.key = Missing
            /\ q.status = s
  BY DEF Answered, IdleRequest, Fields

\* The request of a preview being drafted.
LEMMA DraftingRow ==
  ASSUME NEW k, NEW p
  PROVE  LET q == Drafting(k, p)
         IN DOMAIN q = Fields /\ q.pc = "draft" /\ q.hook = NoHook /\ q.key = k
  BY DEF Drafting, IdleRequest, Fields

\* The request that was refused.
LEMMA RefusedRow ==
  ASSUME NEW s
  PROVE  LET q == Refused(s)
         IN DOMAIN q = Fields /\ q.pc = "answer" /\ q.hook = NoHook /\ q.key = Missing
  BY DEF Refused, IdleRequest, Fields

\* The request that shows its draft.
LEMMA ShownRow ==
  ASSUME NEW q, DOMAIN q = Fields, NEW d
  PROVE  LET t == Shown(q, d)
         IN /\ DOMAIN t = Fields /\ t.pc = "answer" /\ t.hook = q.hook /\ t.key = q.key
            /\ t.draft = d
  BY DEF Shown, Fields

\* A delivery is let in with 200 or answered at once with something else.
LEMMA DeliverTurn ==
  ASSUME NEW r \in Requests, NEW w \in Webhooks, Deliver(r, w)
  PROVE  \/ StatusOf[w][secret] = 200 /\ Turned(r, Admitted(w))
         \/ \E s : s # 200 /\ Turned(r, Answered(w, s))
  <1> DEFINE s == StatusOf[w][secret]
             q == [ IdleRequest EXCEPT !.pc = IF s = 200 THEN "ingest" ELSE "answer",
                                       !.hook = w, !.status = s ]
  <1>1. Turned(r, q)
    BY DEF Deliver, Turned
  <1>2. CASE s = 200
    <2>1. q = Admitted(w)
      BY <1>2 DEF Admitted
    <2> HIDE DEF q
    <2>2. QED
      BY <1>1, <1>2, <2>1
  <1>3. CASE s # 200
    <2>1. q = Answered(w, s)
      BY <1>3 DEF Answered
    <2> HIDE DEF q, s
    <2>2. QED
      BY <1>1, <1>3, <2>1
  <1>4. QED
    BY <1>2, <1>3

\* A request that ends is answered.
LEMMA EndingTurn ==
  ASSUME NEW r \in Requests, NEW s, Ending(r, s)
  PROVE  Turned(r, Answered(request[r].hook, s))
  BY DEF Ending, Turned, Answered

\* A preview is drafted for a case that waits for its customer, and refused
\* for any other.
LEMMA StartTurn ==
  ASSUME NEW r \in Requests, NEW k \in Keys, NEW p \in Providers, PreviewStart(r, k, p)
  PROVE  \/ cases[k].state = "link_sent" /\ Turned(r, Drafting(k, p))
         \/ \E s : Turned(r, Refused(s))
  <1> DEFINE live == cases[k].state = "link_sent" /\ HasCancellableLink(cases[k])
             t == IF cases[k].state = "absent" THEN 404 ELSE 409
  <1>1. Turned(r, IF live THEN Drafting(k, p) ELSE Refused(t))
    BY DEF PreviewStart, Turned, Drafting, Refused
  <1>2. CASE live
    BY <1>1, <1>2
  <1>3. CASE ~live
    <2> HIDE DEF live, t
    <2>1. QED
      BY <1>1, <1>3
  <1>4. QED
    BY <1>2, <1>3

\* A draft is shown while the case waits, and refused after.
LEMMA SaveTurn ==
  ASSUME NEW r \in Requests, PreviewSave(r)
  PROVE  \/ \E x \in ProviderOutcomes(request[r].provider) :
               Turned(r, Shown(request[r], Drafted(request[r], x)))
         \/ Ending(r, 409)
  BY DEF PreviewSave, Turned, Shown

-----------------------------------------------------------------------------
(* The steps, as the proofs need them *)

\* One webhook is claimed and applied.
Applied(w) ==
    /\ w \in Webhooks /\ w \notin claims /\ Supported(Hook[w].body)
    /\ LogicalKey(Hook[w].body) \in Keys
    /\ claims' = claims \cup { w }
    /\ observed' = Plus(observed, w) /\ window' = Plus(window, w)
    /\ LET k == LogicalKey(Hook[w].body)
       IN \E b \in BOOLEAN :
             cases' = [ cases EXCEPT ![k] = Handled(cases[k], EventOf[w], b) ]

\* What Ingest comes to: the acknowledged but forbidden transition is never
\* taken.
LEMMA IngestEffect ==
  ASSUME TypeInv, NEW r \in Requests, Ingest(r)
  PROVE  LET w == request[r].hook
         IN /\ w \in Webhooks
            /\ Ending(r, 200) /\ UNCHANGED << canonical, delivery, secret, faults >>
            /\ \/ w \in claims /\ UNCHANGED << cases, claims, observed, window >>
               \/ Applied(w)
  <1> DEFINE w == request[r].hook
             e == EventOf[w]
  <1>1. /\ w \in Webhooks /\ Supported(Hook[w].body)
        /\ LogicalKey(Hook[w].body) # Missing
    BY DEF TypeInv, RequestOK, Ingest
  <1>2. LogicalKey(Hook[w].body) \in Keys /\ e.key = LogicalKey(Hook[w].body)
    BY <1>1, KeysOK, EventsOK
  <1>3. cases[e.key] \in CaseRecords
    BY <1>2 DEF TypeInv, TypeOK
  <1>4. ~Forbidden(cases[e.key], e)
    BY <1>3, NeverForbidden
  <1>5. QED
    BY <1>1, <1>2, <1>4 DEF Ingest, Applied

\* A step applies one webhook, sends one link, marks one preview, or leaves
\* rows, claims and observations alone.
LEMMA Steps ==
  ASSUME TypeInv, [Next]_vars
  PROVE  \/ \E w \in Webhooks : Applied(w) /\ UNCHANGED canonical
         \/ \E k \in Keys : SendLink(k)
         \/ \E r \in Requests : PreviewSave(r)
         \/ UNCHANGED << cases, claims, observed, canonical >>
  <1>1. ASSUME NEW r \in Requests, Ingest(r)
        PROVE  \/ \E w \in Webhooks : Applied(w) /\ UNCHANGED canonical
               \/ UNCHANGED << cases, claims, observed, canonical >>
    BY <1>1, IngestEffect
  <1>2. ASSUME NEW r \in Requests,
               Answer(r) \/ LoseAnswer(r) \/ IngestFails(r)
        PROVE  UNCHANGED << cases, claims, observed, canonical >>
    BY <1>2 DEF Answer, LoseAnswer, IngestFails, db
  <1>3. ASSUME NEW r \in Requests, NEW w \in Webhooks, Deliver(r, w)
        PROVE  UNCHANGED << cases, claims, observed, canonical >>
    BY <1>3 DEF Deliver, db
  <1>4. ASSUME NEW r \in Requests, NEW k \in Keys, NEW p \in Providers,
               PreviewStart(r, k, p)
        PROVE  UNCHANGED << cases, claims, observed, canonical >>
    BY <1>4 DEF PreviewStart, db
  <1>5. ASSUME Restart \/ Configure
        PROVE  UNCHANGED << cases, claims, observed, canonical >>
    BY <1>5 DEF Restart, Configure, db
  <1>6. ASSUME UNCHANGED vars
        PROVE  UNCHANGED << cases, claims, observed, canonical >>
    BY <1>6 DEF vars, db
  <1>7. QED
    BY <1>1, <1>2, <1>3, <1>4, <1>5, <1>6 DEF Next, Serve

-----------------------------------------------------------------------------
(* What a step does to a row *)

\* The row d may follow the row c: a final case stays final, a case past consent
\* never waits for consent again, and a case that does not exist has no attempts.
RowKept(c, d) ==
    /\ d \in CaseRecords
    /\ d.state = "absent" => d.attempts = 0
    /\ IsFinal(c) => IsFinal(d)
    /\ c.state \in BeyondConsent => d.state \in BeyondConsent

\* A sent link moves the case past consent and leaves its attempts alone.
LEMMA SendLinkRow ==
  ASSUME NEW c \in CaseRecords, c.state = "consent_required"
  PROVE  LET d == LinkSent(c, 1, Received)
         IN /\ RowKept(c, d) /\ d.state = "link_sent" /\ d.attempts = c.attempts
  <1> DEFINE d == LinkSent(c, 1, Received)
             x == EffectiveContacts(c, Received) + 1
             g == [ c EXCEPT !.contacts = x, !.last = Received ]
  <1>1. d \in CaseRecords
    BY ApiAssumption, LinkSentType
  <1>2. d = [ g EXCEPT !.link = 1, !.lstat = "issued", !.state = "link_sent",
                      !.due = NoTime ]
    BY DEF LinkSent, RecordContact
  <1> HIDE DEF x
  <1>3. DOMAIN g = DOMAIN c /\ g.attempts = c.attempts
        /\ "state" \in DOMAIN c /\ "attempts" \in DOMAIN c
    BY DEF CaseRecords
  <1> HIDE DEF g
  <1>4. d.state = "link_sent" /\ d.attempts = c.attempts
    BY <1>2, <1>3
  <1> HIDE DEF d
  <1>5. QED
    BY <1>1, <1>4 DEF RowKept, IsFinal, FinalStates, BeyondConsent, d

\* A stored preview changes neither the state nor the attempts.
LEMMA PreviewRow ==
  ASSUME NEW c \in CaseRecords, c.state = "absent" => c.attempts = 0
  PROVE  LET d == [ c EXCEPT !.preview = TRUE ]
         IN RowKept(c, d) /\ d.state = c.state /\ d.attempts = c.attempts
  BY DEF RowKept, CaseRecords, IsFinal

\* A row that stays is kept.
LEMMA SameRow ==
  ASSUME NEW c \in CaseRecords, c.state = "absent" => c.attempts = 0
  PROVE  RowKept(c, c)
  BY DEF RowKept

\* The preview marks the row of the case it was asked for, or nothing.
LEMMA PreviewEffect ==
  ASSUME TypeInv, NEW r \in Requests, PreviewSave(r)
  PROVE  LET k == request[r].key
         IN /\ k \in Keys
            /\ \/ cases' = cases
               \/ cases' = [ cases EXCEPT ![k] = [ cases[k] EXCEPT !.preview = TRUE ] ]
  <1>1. request[r].key \in Keys
    BY DEF TypeInv, RequestOK, PreviewSave
  <1>2. QED
    BY <1>1 DEF PreviewSave, TypeInv, TypeOK

\* Every step keeps every row in this sense.
LEMMA RowSteps ==
  ASSUME TypeInv, [Next]_vars
  PROVE  /\ cases' \in [ Keys -> CaseRecords ]
         /\ \A k \in Keys : RowKept(cases[k], cases'[k])
  <1>0. /\ cases \in [ Keys -> CaseRecords ]
        /\ \A k \in Keys : cases[k] \in CaseRecords /\ RowKept(cases[k], cases[k])
        /\ \A k \in Keys : cases[k].state = "absent" => cases[k].attempts = 0
    BY SameRow DEF TypeInv, TypeOK
  <1>1. ASSUME NEW k \in Keys, NEW d \in CaseRecords, RowKept(cases[k], d),
               cases' = [ cases EXCEPT ![k] = d ]
        PROVE  /\ cases' \in [ Keys -> CaseRecords ]
               /\ \A j \in Keys : RowKept(cases[j], cases'[j])
    BY <1>0, <1>1
  <1>2. ASSUME NEW w \in Webhooks, Applied(w)
        PROVE  \E k \in Keys, d \in CaseRecords :
                 RowKept(cases[k], d) /\ cases' = [ cases EXCEPT ![k] = d ]
    <2> DEFINE k == LogicalKey(Hook[w].body)
    <2>1. k \in Keys /\ EventOK(EventOf[w])
      BY <1>2, EventsOK DEF Applied
    <2>2. PICK b \in BOOLEAN :
            cases' = [ cases EXCEPT ![k] = Handled(cases[k], EventOf[w], b) ]
      BY <1>2 DEF Applied
    <2> HIDE DEF k
    <2>3. Handled(cases[k], EventOf[w], b) \in CaseRecords
      BY <1>0, <2>1, HandledType
    <2>4. RowKept(cases[k], Handled(cases[k], EventOf[w], b))
      BY <1>0, <2>1, <2>3, HandledEffect DEF RowKept
    <2>5. QED
      BY <2>1, <2>2, <2>3, <2>4
  <1>3. ASSUME NEW k \in Keys, SendLink(k)
        PROVE  \E d \in CaseRecords :
                 RowKept(cases[k], d) /\ cases' = [ cases EXCEPT ![k] = d ]
    BY <1>0, <1>3, SendLinkRow DEF SendLink, RowKept
  <1>4. ASSUME NEW r \in Requests, PreviewSave(r)
        PROVE  \/ cases' = cases
               \/ \E k \in Keys, d \in CaseRecords :
                    RowKept(cases[k], d) /\ cases' = [ cases EXCEPT ![k] = d ]
    BY <1>0, <1>4, PreviewEffect, PreviewRow DEF RowKept
  <1>5. QED
    BY <1>0, <1>1, <1>2, <1>3, <1>4, Steps

-----------------------------------------------------------------------------
(* Type correctness *)

\* Plus counts one webhook once more and leaves the other counters alone.
LEMMA PlusType ==
  ASSUME NEW f \in [ Webhooks -> Nat ], NEW w \in Webhooks
  PROVE  /\ Plus(f, w) \in [ Webhooks -> Nat ]
         /\ \A v \in Webhooks : Plus(f, w)[v] =
               IF v = w /\ Counted(w) THEN f[v] + 1 ELSE f[v]
  BY DEF Plus

\* Claims and observations grow by the one webhook that is applied.
LEMMA ClaimSteps ==
  ASSUME TypeInv, [Next]_vars
  PROVE  /\ claims' \subseteq Webhooks /\ IsFiniteSet(claims')
         /\ claims \subseteq claims'
         /\ observed' \in [ Webhooks -> Nat ]
  <1>1. claims \subseteq Webhooks /\ IsFiniteSet(claims)
        /\ observed \in [ Webhooks -> Nat ]
    BY DEF TypeInv, TypeOK
  <1>2. ASSUME NEW w \in Webhooks, Applied(w)
        PROVE  /\ claims' = claims \cup { w } /\ IsFiniteSet(claims \cup { w })
               /\ observed' \in [ Webhooks -> Nat ]
    BY <1>1, <1>2, FS_AddElement, PlusType DEF Applied
  <1>3. ASSUME \/ \E k \in Keys : SendLink(k)
               \/ \E r \in Requests : PreviewSave(r)
        PROVE  UNCHANGED << claims, observed >>
    BY <1>3 DEF SendLink, PreviewSave
  <1>4. QED
    BY <1>1, <1>2, <1>3, Steps

\* A thread that is given its next job holds it properly.
LEMMA RequestSteps ==
  ASSUME TypeInv, [Next]_vars
  PROVE  DOMAIN request' = Requests /\ \A r \in Requests : RequestOK(request'[r])
  <1>0. DOMAIN request = Requests /\ \A r \in Requests : RequestOK(request[r])
    BY DEF TypeInv
  <1>1. ASSUME NEW r \in Requests, NEW q, RequestOK(q), Turned(r, q)
        PROVE  DOMAIN request' = Requests /\ \A x \in Requests : RequestOK(request'[x])
    BY <1>0, <1>1 DEF Turned
  <1>2. ASSUME NEW h \in Webhooks \cup { NoHook }, NEW s
        PROVE  RequestOK(Answered(h, s))
    BY <1>2, AnsweredRow DEF RequestOK, Fields
  <1>3. ASSUME NEW r \in Requests, NEW s, Ending(r, s)
        PROVE  DOMAIN request' = Requests /\ \A x \in Requests : RequestOK(request'[x])
    <2>1. request[r].hook \in Webhooks \cup { NoHook }
      BY <1>0 DEF RequestOK
    <2>2. QED
      BY <1>1, <1>2, <1>3, <2>1, EndingTurn
  <1>4. ASSUME NEW r \in Requests, NEW w \in Webhooks, Deliver(r, w)
        PROVE  DOMAIN request' = Requests /\ \A x \in Requests : RequestOK(request'[x])
    <2>1. CASE StatusOf[w][secret] = 200 /\ Turned(r, Admitted(w))
      <3>1. Supported(Hook[w].body) /\ LogicalKey(Hook[w].body) # Missing
        BY <2>1, RouteOK DEF TypeInv, TypeOK
      <3>2. RequestOK(Admitted(w))
        BY <3>1, AdmittedRow DEF RequestOK, Fields
      <3>3. QED
        BY <1>1, <2>1, <3>2
    <2>2. CASE \E s : s # 200 /\ Turned(r, Answered(w, s))
      BY <1>1, <1>2, <2>2
    <2>3. QED
      BY <1>4, <2>1, <2>2, DeliverTurn
  <1>5. ASSUME NEW r \in Requests, NEW k \in Keys, NEW p \in Providers,
               PreviewStart(r, k, p)
        PROVE  DOMAIN request' = Requests /\ \A x \in Requests : RequestOK(request'[x])
    <2>1. RequestOK(Drafting(k, p))
      BY DraftingRow DEF RequestOK, Fields
    <2>2. ASSUME NEW s PROVE RequestOK(Refused(s))
      BY RefusedRow DEF RequestOK, Fields
    <2>3. QED
      BY <1>1, <1>5, <2>1, <2>2, StartTurn
  <1>6. ASSUME NEW r \in Requests, PreviewSave(r)
        PROVE  DOMAIN request' = Requests /\ \A x \in Requests : RequestOK(request'[x])
    <2>1. RequestOK(request[r]) /\ request[r].pc = "draft"
      BY <1>0, <1>6 DEF PreviewSave
    <2>2. ASSUME NEW d PROVE RequestOK(Shown(request[r], d))
      BY <2>1, ShownRow DEF RequestOK, Fields
    <2>3. QED
      BY <1>1, <1>3, <1>6, <2>2, SaveTurn
  <1>7. ASSUME NEW r \in Requests, Answer(r) \/ LoseAnswer(r)
        PROVE  DOMAIN request' = Requests /\ \A x \in Requests : RequestOK(request'[x])
    BY <1>1, <1>7, IdleOK DEF Answer, LoseAnswer, Turned
  <1>8. ASSUME NEW r \in Requests, IngestFails(r) \/ Ingest(r)
        PROVE  DOMAIN request' = Requests /\ \A x \in Requests : RequestOK(request'[x])
    BY <1>3, <1>8 DEF IngestFails, Ingest
  <1>9. ASSUME Restart \/ Configure
        PROVE  DOMAIN request' = Requests /\ \A x \in Requests : RequestOK(request'[x])
    BY <1>9, IdleOK DEF Restart, Configure
  <1>10. ASSUME NEW k \in Keys, SendLink(k) PROVE request' = request
    BY <1>10 DEF SendLink
  <1>11. ASSUME UNCHANGED vars PROVE request' = request
    BY <1>11 DEF vars
  <1>12. QED
    BY <1>0, <1>4, <1>5, <1>6, <1>7, <1>8, <1>9, <1>10, <1>11 DEF Next, Serve

\* The variables that no row depends on.
Rest == /\ window \in [ Webhooks -> Nat ] /\ canonical \in [ Keys -> BOOLEAN ]
        /\ delivery \in [ Webhooks -> { "pending", "acked", "dropped" } ]
        /\ secret \in BOOLEAN /\ faults \in 0 .. MaxFaults

\* The counters, the deliveries and the settings keep their types.
LEMMA RestSteps ==
  ASSUME TypeInv, [Next]_vars
  PROVE  Rest'
  <1>0. Rest /\ observed \in [ Webhooks -> Nat ] /\ MaxFaults \in Nat
    BY ApiAssumption DEF TypeInv, TypeOK, Rest
  <1>1. faults < MaxFaults => faults + 1 \in 0 .. MaxFaults
    BY <1>0 DEF Rest
  <1>2. ASSUME NEW r \in Requests, Ingest(r)
        PROVE  Rest'
    BY <1>0, <1>2, IngestEffect, PlusType DEF Rest, Applied
  <1>3. ASSUME NEW r \in Requests, IngestFails(r)
        PROVE  Rest'
    <2>1. request[r].hook \in Webhooks
      BY <1>3 DEF IngestFails, TypeInv, RequestOK
    <2>2. window' \in [ Webhooks -> Nat ]
      BY <1>0, <1>3, <2>1, PlusType DEF IngestFails, Rest
    <2>3. QED
      BY <1>0, <1>1, <1>3, <2>2 DEF IngestFails, Rest, db
  <1>4. ASSUME NEW r \in Requests, Answer(r)
        PROVE  Rest'
    <2>1. \A x : AfterAnswer(x) \in { "pending", "acked", "dropped" }
      BY DEF AfterAnswer
    <2>2. QED
      BY <1>0, <1>4, <2>1 DEF Answer, Rest, db
  <1>5. ASSUME NEW r \in Requests, LoseAnswer(r) \/ PreviewSave(r)
        PROVE  Rest'
    BY <1>0, <1>1, <1>5 DEF LoseAnswer, PreviewSave, Rest, db
  <1>6. ASSUME NEW r \in Requests, NEW w \in Webhooks, Deliver(r, w)
        PROVE  Rest'
    BY <1>0, <1>6 DEF Deliver, Rest, db
  <1>7. ASSUME NEW r \in Requests, NEW k \in Keys, NEW p \in Providers,
               PreviewStart(r, k, p)
        PROVE  Rest'
    BY <1>0, <1>7 DEF PreviewStart, Rest, db
  <1>8. ASSUME NEW k \in Keys, SendLink(k)
        PROVE  Rest'
    BY <1>0, <1>8 DEF SendLink, Rest
  <1>9. ASSUME Restart \/ Configure
        PROVE  Rest'
    BY <1>0, <1>1, <1>9 DEF Restart, Configure, Rest, db
  <1>10. ASSUME UNCHANGED vars
         PROVE  Rest'
    BY <1>0, <1>10 DEF vars, Rest, db
  <1>11. QED
    BY <1>2, <1>3, <1>4, <1>5, <1>6, <1>7, <1>8, <1>9, <1>10 DEF Next, Serve

\* The engine starts with every variable in its type.
LEMMA InitType == Init => TypeInv
  <1> SUFFICES ASSUME Init PROVE TypeInv
    OBVIOUS
  <1>1. AbsentCase \in CaseRecords /\ AbsentCase.attempts = 0
    BY CaseConstants DEF AbsentCase, NewCase
  <1>2. IsFiniteSet({})
    BY FS_EmptySet
  <1>3. \A r \in Requests : RequestOK(request[r])
    BY IdleOK DEF Init
  <1>4. QED
    BY <1>1, <1>2, <1>3, ApiAssumption DEF Init, TypeInv, TypeOK, RequestOK

\* Every variable of the HTTP boundary has its type, whatever is delivered.
THEOREM ApiTypes == Spec => []TypeInv
  <1>1. TypeInv /\ [Next]_vars => TypeInv'
    <2> SUFFICES ASSUME TypeInv, [Next]_vars PROVE TypeInv'
      OBVIOUS
    <2>1. /\ cases' \in [ Keys -> CaseRecords ]
          /\ \A k \in Keys : cases'[k].state = "absent" => cases'[k].attempts = 0
      BY RowSteps DEF RowKept
    <2>2. QED
      BY <2>1, ClaimSteps, RequestSteps, RestSteps
      DEF TypeInv, TypeOK, Rest, RequestOK
  <1>2. QED
    BY <1>1, InitType, PTL DEF Spec

-----------------------------------------------------------------------------
(* Every event is counted once *)

FailuresOf(k) ==
    { w \in Webhooks : /\ w \in claims /\ Hook[w].body.event \in FailureEvents
                      /\ LogicalKey(Hook[w].body) = k }

\* The one webhook that is applied adds itself to the failures of its row.
LEMMA AppliedCounts ==
  ASSUME TypeInv, AttemptsMatchClaims, NEW w \in Webhooks, Applied(w)
  PROVE  AttemptsMatchClaims'
  <1> DEFINE k == LogicalKey(Hook[w].body)
             e == EventOf[w]
             fails == e.type \in FailureEvents
  <1>1. /\ k \in Keys /\ EventOK(e) /\ e.type = Hook[w].body.event
        /\ w \notin claims /\ claims' = claims \cup { w }
    BY EventsOK DEF Applied
  <1>2. PICK b \in BOOLEAN : cases' = [ cases EXCEPT ![k] = Handled(cases[k], e, b) ]
    BY DEF Applied
  <1>3. /\ cases \in [ Keys -> CaseRecords ]
        /\ \A j \in Keys : cases[j].state = "absent" => cases[j].attempts = 0
        /\ IsFiniteSet(claims)
    BY DEF TypeInv, TypeOK
  <1>4. \A j \in Keys : ~IsFinal(cases[j]) =>
          cases[j].attempts = Cardinality(FailuresOf(j))
    BY DEF AttemptsMatchClaims, FailuresOf
  <1>5. \A j \in Keys : IsFiniteSet(FailuresOf(j)) /\ w \notin FailuresOf(j)
    <2>1. \A j \in Keys : FailuresOf(j) \in SUBSET claims
      BY DEF FailuresOf
    <2>2. QED
      BY <1>1, <1>3, <2>1, FS_Subset
  <1> HIDE DEF k, e
  <1>6. ASSUME NEW j \in Keys, j # k, ~IsFinal(cases'[j])
        PROVE  cases'[j].attempts = Cardinality(FailuresOf(j)')
    <2>1. cases'[j] = cases[j]
      BY <1>2, <1>3, <1>6
    <2>2. FailuresOf(j)' = FailuresOf(j)
      BY <1>1, <1>6 DEF FailuresOf, k
    <2>3. QED
      BY <1>4, <1>6, <2>1, <2>2
  <1>7. ASSUME ~IsFinal(cases'[k])
        PROVE  cases'[k].attempts = Cardinality(FailuresOf(k)')
    <2>1. cases'[k] = Handled(cases[k], e, b)
      BY <1>1, <1>2, <1>3
    <2>2. ~IsFinal(cases[k])
          /\ cases'[k].attempts = cases[k].attempts + (IF fails THEN 1 ELSE 0)
      BY <1>1, <1>3, <1>7, <2>1, HandledEffect
    <2>3. cases[k].attempts = Cardinality(FailuresOf(k)) /\ cases[k].attempts \in Nat
      BY <1>1, <1>3, <1>4, <2>2 DEF CaseRecords
    <2>4. FailuresOf(k)' = IF fails THEN FailuresOf(k) \cup { w } ELSE FailuresOf(k)
      BY <1>1 DEF FailuresOf, k
    <2>5. Cardinality(FailuresOf(k) \cup { w }) = Cardinality(FailuresOf(k)) + 1
      BY <1>1, <1>5, FS_AddElement
    <2>6. QED
      BY <2>2, <2>3, <2>4, <2>5
  <1>8. QED
    BY <1>6, <1>7 DEF AttemptsMatchClaims, FailuresOf

\* No other step touches an attempt of an open case.
LEMMA OthersCount ==
  ASSUME TypeInv, AttemptsMatchClaims, UNCHANGED claims,
         \A k \in Keys : /\ cases'[k].attempts = cases[k].attempts
                         /\ IsFinal(cases[k]) => IsFinal(cases'[k])
  PROVE  AttemptsMatchClaims'
  BY DEF AttemptsMatchClaims

\* However often a webhook is delivered, and whatever fails in between, an
\* open case has counted each claimed failure of its key exactly once.
THEOREM AttemptsCounted == Spec => []AttemptsMatchClaims
  <1>1. Init => AttemptsMatchClaims
    <2> SUFFICES ASSUME Init PROVE AttemptsMatchClaims
      OBVIOUS
    <2>1. \A k \in Keys : { w \in Webhooks : /\ w \in claims
                               /\ Hook[w].body.event \in FailureEvents
                               /\ LogicalKey(Hook[w].body) = k } = {}
      BY DEF Init
    <2>2. Cardinality({}) = 0 /\ AbsentCase.attempts = 0
      BY FS_EmptySet DEF AbsentCase, NewCase
    <2>3. QED
      BY <2>1, <2>2 DEF Init, AttemptsMatchClaims
  <1>2. TypeInv /\ AttemptsMatchClaims /\ [Next]_vars => AttemptsMatchClaims'
    <2> SUFFICES ASSUME TypeInv, AttemptsMatchClaims, [Next]_vars
                 PROVE  AttemptsMatchClaims'
      OBVIOUS
    <2>0. /\ cases \in [ Keys -> CaseRecords ]
          /\ \A k \in Keys : cases[k].state = "absent" => cases[k].attempts = 0
      BY DEF TypeInv, TypeOK
    <2>1. ASSUME NEW k \in Keys, SendLink(k) PROVE AttemptsMatchClaims'
      <3>1. UNCHANGED claims /\ cases' = [ cases EXCEPT ![k] = LinkSent(cases[k], 1, Received) ]
            /\ cases[k].state = "consent_required"
        BY <2>1 DEF SendLink
      <3>2. \A j \in Keys : /\ cases'[j].attempts = cases[j].attempts
                            /\ IsFinal(cases[j]) => IsFinal(cases'[j])
        BY <2>0, <3>1, SendLinkRow DEF RowKept
      <3>3. QED
        BY <3>1, <3>2, OthersCount
    <2>2. ASSUME NEW r \in Requests, PreviewSave(r) PROVE AttemptsMatchClaims'
      <3>1. UNCHANGED claims
        BY <2>2 DEF PreviewSave
      <3> DEFINE k == request[r].key
      <3>2. /\ k \in Keys
            /\ \/ cases' = cases
               \/ cases' = [ cases EXCEPT ![k] = [ cases[k] EXCEPT !.preview = TRUE ] ]
        BY <2>2, PreviewEffect
      <3> DEFINE d == [ cases[k] EXCEPT !.preview = TRUE ]
      <3>3. RowKept(cases[k], d) /\ d.attempts = cases[k].attempts
        BY <2>0, <3>2, PreviewRow
      <3>4. cases' = cases \/ cases' = [ cases EXCEPT ![k] = d ]
        BY <3>2
      <3> HIDE DEF d, k
      <3>5. \A j \in Keys : /\ cases'[j].attempts = cases[j].attempts
                            /\ IsFinal(cases[j]) => IsFinal(cases'[j])
        BY <2>0, <3>2, <3>3, <3>4 DEF RowKept
      <3>6. QED
        BY <3>1, <3>5, OthersCount
    <2>3. ASSUME UNCHANGED << cases, claims, observed, canonical >>
          PROVE  AttemptsMatchClaims'
      BY <2>3 DEF AttemptsMatchClaims
    <2>4. QED
      BY <2>1, <2>2, <2>3, AppliedCounts, Steps
  <1>3. QED
    BY <1>1, <1>2, ApiTypes, PTL DEF Spec

\* The durable health table holds each applied charge outcome once, and the
\* monitor's memory is never behind it, across failed transactions and restarts.
THEOREM HealthExact == Spec => []DurableHealthExact
  <1>1. Init => DurableHealthExact
    BY DEF Init, DurableHealthExact
  <1>2. TypeInv /\ DurableHealthExact /\ [Next]_vars => DurableHealthExact'
    <2> SUFFICES ASSUME TypeInv, DurableHealthExact, [Next]_vars
                 PROVE  DurableHealthExact'
      OBVIOUS
    <2>0. /\ observed \in [ Webhooks -> Nat ] /\ window \in [ Webhooks -> Nat ]
          /\ claims \subseteq Webhooks
      BY DEF TypeInv, TypeOK
    <2>1. ASSUME NEW w \in Webhooks, Applied(w) PROVE DurableHealthExact'
      <3>1. /\ claims' = claims \cup { w } /\ w \notin claims
            /\ observed' = Plus(observed, w) /\ window' = Plus(window, w)
        BY <2>1 DEF Applied
      <3>2. \A v \in Webhooks :
              /\ observed'[v] = IF v = w /\ Counted(w) THEN observed[v] + 1 ELSE observed[v]
              /\ window'[v] = IF v = w /\ Counted(w) THEN window[v] + 1 ELSE window[v]
        BY <2>0, <3>1, PlusType
      <3>3. ASSUME NEW v \in Webhooks
            PROVE  /\ observed'[v] = (IF v \in claims' /\ Counted(v) THEN 1 ELSE 0)
                   /\ window'[v] >= observed'[v]
        <4>1. /\ observed[v] = (IF v \in claims /\ Counted(v) THEN 1 ELSE 0)
              /\ window[v] >= observed[v] /\ observed[v] \in Nat /\ window[v] \in Nat
          BY <2>0 DEF DurableHealthExact
        <4>2. QED
          BY <3>1, <3>2, <4>1
      <3>4. QED
        BY <3>3 DEF DurableHealthExact, Counted, EventOf
    <2>2. ASSUME UNCHANGED << claims, observed >>,
                 \A v \in Webhooks : window'[v] >= window[v] \/ window'[v] = observed[v]
          PROVE  DurableHealthExact'
      <3>1. ASSUME NEW v \in Webhooks
            PROVE  /\ observed'[v] = (IF v \in claims' /\ Counted(v) THEN 1 ELSE 0)
                   /\ window'[v] >= observed'[v]
        <4>1. /\ observed[v] = (IF v \in claims /\ Counted(v) THEN 1 ELSE 0)
              /\ window[v] >= observed[v] /\ observed[v] \in Nat /\ window[v] \in Nat
              /\ window'[v] \in Nat
          BY <2>0, RestSteps DEF DurableHealthExact, Rest
        <4>2. window'[v] >= window[v] \/ window'[v] = observed[v]
          BY <2>2
        <4>3. QED
          BY <2>2, <4>1, <4>2
      <3>2. QED
        BY <3>1 DEF DurableHealthExact, Counted, EventOf
    <2>3. ASSUME NEW r \in Requests, Ingest(r) PROVE DurableHealthExact'
      <3>1. \/ UNCHANGED << claims, observed, window >>
            \/ request[r].hook \in Webhooks /\ Applied(request[r].hook)
        BY <2>3, IngestEffect
      <3>2. \A v \in Webhooks : window[v] >= window[v]
        BY <2>0
      <3>3. QED
        BY <2>1, <2>2, <3>1, <3>2
    <2>4. ASSUME NEW r \in Requests, IngestFails(r) PROVE DurableHealthExact'
      <3>1. request[r].hook \in Webhooks
        BY <2>4 DEF IngestFails, TypeInv, RequestOK
      <3>2. UNCHANGED << claims, observed >>
            /\ (window' = window \/ window' = Plus(window, request[r].hook))
        BY <2>4 DEF IngestFails, db
      <3>3. \A v \in Webhooks : window'[v] >= window[v]
        BY <2>0, <3>1, <3>2, PlusType
      <3>4. QED
        BY <2>2, <3>2, <3>3
    <2>5. ASSUME Restart \/ Configure PROVE DurableHealthExact'
      BY <2>2, <2>5 DEF Restart, Configure, db
    <2>6. ASSUME UNCHANGED << claims, observed, window >> PROVE DurableHealthExact'
      <3>1. \A v \in Webhooks : window[v] >= window[v]
        BY <2>0
      <3>2. QED
        BY <2>2, <2>6, <3>1
    <2>7. ASSUME \/ \E r \in Requests : Answer(r) \/ LoseAnswer(r) \/ PreviewSave(r)
                 \/ \E r \in Requests, w \in Webhooks : Deliver(r, w)
                 \/ \E r \in Requests, k \in Keys, p \in Providers : PreviewStart(r, k, p)
                 \/ \E k \in Keys : SendLink(k)
                 \/ UNCHANGED vars
          PROVE  UNCHANGED << claims, observed, window >>
      BY <2>7 DEF Answer, LoseAnswer, PreviewSave, Deliver, PreviewStart, SendLink,
                  vars, db
    <2>8. QED
      BY <2>3, <2>4, <2>5, <2>6, <2>7 DEF Next, Serve
  <1>3. QED
    BY <1>1, <1>2, ApiTypes, PTL DEF Spec

-----------------------------------------------------------------------------
(* An acknowledgement is the end of a webhook *)

\* A thread that is about to acknowledge has claimed, and AckedIsApplied.
AckInv ==
    /\ AckedIsApplied
    /\ \A r \in Requests :
          LET q == request[r]
          IN q.pc = "answer" /\ q.hook # NoHook /\ q.status = 200 => q.hook \in claims

\* The provider stops at an acknowledgement: the event is claimed by then, and
\* its effect is in the same transaction.
THEOREM Acknowledged == Spec => []AckedIsApplied
  <1>1. Init => AckInv
    BY DEF Init, AckInv, AckedIsApplied, IdleRequest
  <1>2. TypeInv /\ AckInv /\ [Next]_vars => AckInv'
    <2> SUFFICES ASSUME TypeInv, AckInv, [Next]_vars PROVE AckInv'
      OBVIOUS
    <2> DEFINE Fine(q, c) == q.pc = "answer" /\ q.hook # NoHook /\ q.status = 200
                             => q.hook \in c
    <2>0. /\ \A r \in Requests : RequestOK(request[r]) /\ Fine(request[r], claims)
          /\ \A w \in Webhooks : delivery[w] = "acked" => w \in claims
          /\ DOMAIN request = Requests /\ claims \subseteq claims'
          /\ delivery \in [ Webhooks -> { "pending", "acked", "dropped" } ]
      BY ClaimSteps DEF TypeInv, TypeOK, AckInv, AckedIsApplied
    <2>1. Fine(IdleRequest, claims')
      BY DEF IdleRequest
    <2>2. ASSUME NEW r \in Requests, NEW q, Fine(q, claims'), UNCHANGED delivery,
                 Turned(r, q)
          PROVE  AckInv'
      BY <2>0, <2>2 DEF AckInv, AckedIsApplied, Turned
    <2>3. ASSUME UNCHANGED delivery,
                 request' = request \/ request' = [ r \in Requests |-> IdleRequest ]
          PROVE  AckInv'
      BY <2>0, <2>1, <2>3 DEF AckInv, AckedIsApplied
    <2>4. ASSUME NEW r \in Requests, Ingest(r) PROVE AckInv'
      <3>1. request[r].hook \in claims' /\ UNCHANGED delivery /\ Ending(r, 200)
        BY <2>4, IngestEffect DEF Applied
      <3>2. Fine(Answered(request[r].hook, 200), claims')
        BY <3>1, AnsweredRow
      <3>3. QED
        BY <2>2, <3>1, <3>2, EndingTurn
    <2>5. ASSUME NEW r \in Requests, NEW s, s # 200, Ending(r, s), UNCHANGED delivery
          PROVE  AckInv'
      <3>1. Fine(Answered(request[r].hook, s), claims')
        BY <2>5, AnsweredRow
      <3>2. QED
        BY <2>2, <2>5, <3>1, EndingTurn
    <2>6. ASSUME NEW r \in Requests, NEW w \in Webhooks, Deliver(r, w) PROVE AckInv'
      <3>1. UNCHANGED delivery
        BY <2>6 DEF Deliver
      <3>2. Fine(Admitted(w), claims')
        BY AdmittedRow
      <3>3. \A s : s # 200 => Fine(Answered(w, s), claims')
        BY AnsweredRow
      <3>4. QED
        BY <2>2, <2>6, <3>1, <3>2, <3>3, DeliverTurn
    <2>7. ASSUME NEW r \in Requests, Answer(r) PROVE AckInv'
      <3>1. /\ request' = [ request EXCEPT ![r] = IdleRequest ] /\ claims' = claims
            /\ request[r].pc = "answer"
        BY <2>7 DEF Answer, db
      <3>2. \A x \in Requests : Fine(request'[x], claims')
        BY <2>0, <2>1, <3>1
      <3>3. \A s : AfterAnswer(s) = "acked" => s = 200
        BY DEF AfterAnswer
      <3>4. \A w \in Webhooks : delivery'[w] = "acked" => w \in claims
        BY <2>0, <2>7, <3>3 DEF Answer
      <3>5. QED
        BY <3>1, <3>2, <3>4 DEF AckInv, AckedIsApplied
    <2>8. ASSUME NEW r \in Requests, LoseAnswer(r) PROVE AckInv'
      <3>1. request' = [ request EXCEPT ![r] = IdleRequest ] /\ UNCHANGED delivery
        BY <2>8 DEF LoseAnswer
      <3>2. QED
        BY <2>1, <2>2, <3>1 DEF Turned
    <2>9. ASSUME NEW r \in Requests, PreviewSave(r) PROVE AckInv'
      <3>1. RequestOK(request[r]) /\ request[r].hook = NoHook /\ UNCHANGED delivery
        BY <2>0, <2>9 DEF PreviewSave, RequestOK
      <3>2. \A d : Fine(Shown(request[r], d), claims')
        BY <3>1, ShownRow DEF RequestOK, Fields
      <3>3. CASE Ending(r, 409)
        BY <2>5, <3>1, <3>3
      <3>4. QED
        BY <2>2, <2>9, <3>1, <3>2, <3>3, SaveTurn
    <2>10. ASSUME NEW r \in Requests, IngestFails(r) PROVE AckInv'
      BY <2>5, <2>10 DEF IngestFails
    <2>11. ASSUME NEW r \in Requests, NEW k \in Keys, NEW p \in Providers,
                  PreviewStart(r, k, p)
           PROVE  AckInv'
      <3>1. UNCHANGED delivery
        BY <2>11 DEF PreviewStart
      <3>2. Fine(Drafting(k, p), claims')
        BY DraftingRow
      <3>3. \A s : Fine(Refused(s), claims')
        BY RefusedRow
      <3>4. QED
        BY <2>2, <2>11, <3>1, <3>2, <3>3, StartTurn
    <2>12. ASSUME \/ \E k \in Keys : SendLink(k)
                  \/ Restart \/ Configure \/ UNCHANGED vars
           PROVE  AckInv'
      BY <2>3, <2>12 DEF SendLink, Restart, Configure, vars
    <2>13. QED
      BY <2>4, <2>6, <2>7, <2>8, <2>9, <2>10, <2>11, <2>12 DEF Next, Serve
  <1>3. AckInv => AckedIsApplied
    BY DEF AckInv
  <1>4. QED
    BY <1>1, <1>2, <1>3, ApiTypes, PTL DEF Spec

-----------------------------------------------------------------------------
(* What a merchant is shown *)

\* A draft of generate_preview that is safe for a link.
SafeDraft(d, isCanonical) ==
    /\ d.preview.approved => d.preview.body = {} /\ d.preview.appended /\ isCanonical
    /\ d.kind = "raised" => (d.preview.approved <=> isCanonical)

\* Whatever the provider answers, the validator passes a clean body only, and
\* the fall-back template is clean.
LEMMA DraftedSafe ==
  ASSUME NEW provider, NEW outcome \in ProviderOutcomes(provider),
         NEW isCanonical \in BOOLEAN
  PROVE  SafeDraft([ preview |-> GeneratePreview(provider, outcome, isCanonical),
                     kind |-> outcome.kind ], isCanonical)
  <1> DEFINE p == GeneratePreview(provider, outcome, isCanonical)
             blocked(d) == Validate(d, isCanonical)
  <1>1. \A d, by : /\ Approve(d, isCanonical, by).approved <=> blocked(d) = {}
                   /\ Approve(d, isCanonical, by).appended <=> blocked(d) = {}
                   /\ Approve(d, isCanonical, by).body = d
    BY DEF Approve
  <1>2. \A d : blocked(d) = {} => d = {} /\ isCanonical
    BY DEF Validate
  <1>3. blocked({}) = {} <=> isCanonical
    BY DEF Validate
  <1>4. CASE outcome.kind = "invalid"
    BY <1>4 DEF GeneratePreview, InvalidDraft, SafeDraft
  <1>5. CASE outcome.kind = "raised"
    <2>1. p = Approve({}, isCanonical, "template_after_provider_error")
      BY <1>5 DEF GeneratePreview, TemplateDraft
    <2> HIDE DEF p, blocked
    <2>2. p.approved => p.body = {} /\ p.appended /\ isCanonical
      BY <1>1, <1>2, <2>1
    <2>3. p.approved <=> isCanonical
      BY <1>1, <1>3, <2>1
    <2>4. QED
      BY <2>2, <2>3 DEF SafeDraft, p
  <1>6. CASE outcome.kind \notin { "invalid", "raised" }
    <2>1. p = Approve(outcome.draft, isCanonical, provider)
      BY <1>6 DEF GeneratePreview
    <2> HIDE DEF p, blocked
    <2>2. p.approved => p.body = {} /\ p.appended /\ isCanonical
      BY <1>1, <1>2, <2>1
    <2>3. QED
      BY <1>6, <2>2 DEF SafeDraft, p
  <1>7. QED
    BY <1>4, <1>5, <1>6

\* A thread with a preview in hand works on a case that has its link for good,
\* so the link it was validated against is the link that is shown.
PreviewInv ==
    \A r \in Requests :
        LET q == request[r]
        IN /\ q.pc \in { "idle", "ingest" } => q.key = Missing
           /\ q.key # Missing => cases[q.key].state \in BeyondConsent
           /\ q.pc = "answer" /\ q.key # Missing => SafeDraft(q.draft, canonical[q.key])

\* A thread whose request carries no preview, or a safe one.
Harmless(q, rows, links) ==
    /\ q.pc \in { "idle", "ingest" } => q.key = Missing
    /\ q.key # Missing => rows[q.key].state \in BeyondConsent
    /\ q.pc = "answer" /\ q.key # Missing => SafeDraft(q.draft, links[q.key])

\* The link of a case that a preview is about does not change any more.
LEMMA LinksStay ==
  ASSUME TypeInv, PreviewInv, [Next]_vars
  PROVE  \A r \in Requests : Harmless(request[r], cases', canonical')
  <1>1. \A k \in Keys : cases[k].state \in BeyondConsent =>
          cases'[k].state \in BeyondConsent
    BY RowSteps DEF RowKept
  <1>2. \A k \in Keys : cases[k].state \in BeyondConsent => canonical'[k] = canonical[k]
    <2>1. ASSUME NEW j \in Keys, SendLink(j), NEW k \in Keys,
                 cases[k].state \in BeyondConsent
          PROVE  canonical'[k] = canonical[k]
      <3>1. cases[j].state = "consent_required"
            /\ \E b \in BOOLEAN : canonical' = [ canonical EXCEPT ![j] = b ]
        BY <2>1 DEF SendLink
      <3>2. j # k
        BY <2>1, <3>1 DEF BeyondConsent, FinalStates
      <3>3. QED
        BY <3>1, <3>2 DEF TypeInv, TypeOK
    <2>2. ASSUME NEW r \in Requests, PreviewSave(r) PROVE canonical' = canonical
      BY <2>2 DEF PreviewSave
    <2>3. QED
      BY <2>1, <2>2, Steps
  <1>3. \A r \in Requests : request[r].key \in Keys \cup { Missing }
    BY DEF TypeInv, RequestOK
  <1>4. QED
    BY <1>1, <1>2, <1>3 DEF PreviewInv, Harmless

\* A merchant is shown an approved preview only with a clean body and the
\* canonical link appended by code, whatever the model wrote; and a model that
\* fails never costs the merchant the preview.
THEOREM PreviewSafe == Spec => []PreviewIsSafe
  <1>1. Init => PreviewInv
    <2> SUFFICES ASSUME Init, NEW r \in Requests
                 PROVE  request[r].pc = "idle" /\ request[r].key = Missing
      BY DEF PreviewInv
    <2>1. request[r] = IdleRequest
      BY DEF Init
    <2>2. QED
      BY <2>1 DEF IdleRequest
  <1>2. TypeInv /\ PreviewInv /\ [Next]_vars => PreviewInv'
    <2> SUFFICES ASSUME TypeInv, PreviewInv, [Next]_vars PROVE PreviewInv'
      OBVIOUS
    <2>0. /\ \A r \in Requests : RequestOK(request[r])
          /\ \A r \in Requests : Harmless(request[r], cases', canonical')
          /\ DOMAIN request = Requests
          /\ Missing \notin Keys
      BY LinksStay DEF TypeInv, Keys
    <2>1. ASSUME NEW r \in Requests, NEW q, Harmless(q, cases', canonical'),
                 Turned(r, q)
          PROVE  PreviewInv'
      <3>1. \A x \in Requests : Harmless(request'[x], cases', canonical')
        BY <2>0, <2>1 DEF Turned
      <3>2. QED
        BY <3>1 DEF PreviewInv, Harmless, SafeDraft
    <2>2. ASSUME NEW q, q.key = Missing PROVE Harmless(q, cases', canonical')
      BY <2>2 DEF Harmless
    <2>3. IdleRequest.key = Missing
      BY DEF IdleRequest
    <2>4. ASSUME request' = request \/ request' = [ r \in Requests |-> IdleRequest ]
          PROVE  PreviewInv'
      <3>1. \A x \in Requests : Harmless(request'[x], cases', canonical')
        BY <2>0, <2>2, <2>3, <2>4
      <3>2. QED
        BY <3>1 DEF PreviewInv, Harmless, SafeDraft
    <2>5. ASSUME NEW r \in Requests, NEW s, Ending(r, s) PROVE PreviewInv'
      BY <2>1, <2>2, <2>5, EndingTurn, AnsweredRow
    <2>6. ASSUME NEW r \in Requests, NEW w \in Webhooks, Deliver(r, w) PROVE PreviewInv'
      BY <2>1, <2>2, <2>6, DeliverTurn, AdmittedRow, AnsweredRow
    <2>7. ASSUME NEW r \in Requests, Answer(r) \/ LoseAnswer(r) PROVE PreviewInv'
      BY <2>1, <2>2, <2>3, <2>7 DEF Answer, LoseAnswer, Turned
    <2>8. ASSUME NEW r \in Requests, IngestFails(r) \/ Ingest(r) PROVE PreviewInv'
      BY <2>5, <2>8 DEF IngestFails, Ingest
    <2>9. ASSUME NEW r \in Requests, NEW k \in Keys, NEW p \in Providers,
                 PreviewStart(r, k, p)
          PROVE  PreviewInv'
      <3>1. CASE cases[k].state = "link_sent" /\ Turned(r, Drafting(k, p))
        <4>1. cases'[k].state \in BeyondConsent
          BY <3>1, RowSteps DEF RowKept, BeyondConsent
        <4>2. Harmless(Drafting(k, p), cases', canonical')
          BY <4>1, DraftingRow DEF Harmless
        <4>3. QED
          BY <2>1, <3>1, <4>2
      <3>2. CASE \E s : Turned(r, Refused(s))
        BY <2>1, <2>2, <3>2, RefusedRow
      <3>3. QED
        BY <2>9, <3>1, <3>2, StartTurn
    <2>10. ASSUME NEW r \in Requests, PreviewSave(r) PROVE PreviewInv'
      <3> DEFINE o == request[r]
                 k == o.key
      <3>1. /\ RequestOK(o) /\ k \in Keys /\ canonical' = canonical
            /\ canonical[k] \in BOOLEAN /\ cases'[k].state \in BeyondConsent
        BY <2>0, <2>10 DEF PreviewSave, RequestOK, TypeInv, TypeOK, Harmless
      <3>2. CASE Ending(r, 409)
        BY <2>5, <3>2
      <3>3. ASSUME NEW x \in ProviderOutcomes(o.provider), Turned(r, Shown(o, Drafted(o, x)))
            PROVE  PreviewInv'
        <4> DEFINE d == Drafted(o, x)
                   q == Shown(o, d)
        <4>1. SafeDraft(d, canonical[k])
          BY <3>1, DraftedSafe DEF Drafted
        <4> HIDE DEF d
        <4>2. q.key = k /\ q.draft = d /\ q.pc = "answer"
          BY <3>1, ShownRow DEF RequestOK, Fields
        <4> HIDE DEF q
        <4>3. Harmless(q, cases', canonical')
          BY <3>1, <4>1, <4>2 DEF Harmless
        <4>4. QED
          BY <2>1, <3>3, <4>3 DEF d, q
      <3>4. QED
        BY <2>10, <3>2, <3>3, SaveTurn
    <2>11. ASSUME \/ \E k \in Keys : SendLink(k)
                  \/ Restart \/ Configure \/ UNCHANGED vars
           PROVE  PreviewInv'
      BY <2>4, <2>11 DEF SendLink, Restart, Configure, vars
    <2>12. QED
      BY <2>6, <2>7, <2>8, <2>9, <2>10, <2>11 DEF Next, Serve
  <1>3. PreviewInv => PreviewIsSafe
    BY DEF PreviewInv, PreviewIsSafe, SafeDraft
  <1>4. QED
    BY <1>1, <1>2, <1>3, ApiTypes, PTL DEF Spec

=============================================================================
