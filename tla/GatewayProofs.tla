--------------------------- MODULE GatewayProofs ----------------------------
(***************************************************************************)
(* For every number of invoices, attempts and cancels: the retry loop of   *)
(* the gateway leaves no second link behind and keeps CreateContract.      *)
(***************************************************************************)
EXTENDS Gateway, FiniteSetTheorems, TLAPS

\* A thread inside a call has made it and has attempts left to send; a cancel
\* is never the first call.
CallsOK ==
    \A i \in Invoices :
        /\ phase[i] # "idle" => calls[i] >= 1
        /\ phase[i] = "sending" => attempt[i] < MaxAttempts
        /\ op[i] = "cancel" <=> calls[i] >= 2

\* A request on the wire belongs to an operation that was called.
WireOK ==
    \A m \in wire : /\ calls[m.inv] >= 1
                    /\ m.op = "cancel" => calls[m.inv] >= 2

\* An answer on the wire, and one that was returned, is true of the link.
AnswersOK ==
    \A i \in Invoices :
        /\ reply[i] # "none" => phase[i] = "waiting"
        /\ reply[i] = "link" => op[i] = "create" /\ links[i][1] # "none"
        /\ reply[i] \in { "paid", "cancelled" } =>
             op[i] = "cancel" /\ links[i][1] = reply[i]
        /\ result[i] = "link" => links[i][1] # "none"
        /\ calls[i] >= 2 => links[i][1] # "none"

\* Only the link of the one idempotency key exists.
OneKey == \A i \in Invoices, n \in Attempts : n # 1 => links[i][n] = "none"

GatewayInv == GatewayTypeOK /\ CallsOK /\ WireOK /\ AnswersOK /\ OneKey

\* A call has a first attempt.
LEMMA FirstAttempt == 1 \in Attempts
  BY GatewayAssumption DEF Attempts

\* The invariant holds at the start.
LEMMA InitInv == Init => GatewayInv
  BY GatewayAssumption
  DEF Init, GatewayInv, GatewayTypeOK, CallsOK, WireOK, AnswersOK, OneKey,
      Attempts, Errors, Statuses

\* Starting a call keeps the invariant.
LEMMA CallStep ==
  ASSUME GatewayInv, NEW i \in Invoices, NEW o \in { "create", "cancel" }, Call(i, o)
  PROVE  GatewayInv'
  <1> USE GatewayAssumption DEF GatewayInv
  <1>1. GatewayTypeOK' BY DEF Call, GatewayTypeOK
  <1>2. CallsOK' BY DEF Call, GatewayTypeOK, CallsOK
  <1>3. WireOK' BY DEF Call, GatewayTypeOK, WireOK
  <1>4. AnswersOK' BY DEF Call, GatewayTypeOK, CallsOK, AnswersOK
  <1>5. OneKey' BY DEF Call, OneKey
  <1> QED BY <1>1, <1>2, <1>3, <1>4, <1>5

\* Sending an attempt keeps the invariant.
LEMMA SendStep ==
  ASSUME GatewayInv, NEW i \in Invoices, Send(i)
  PROVE  GatewayInv'
  <1> USE GatewayAssumption DEF GatewayInv
  <1>1. GatewayTypeOK'
    <2>1. Request(i, attempt[i] + 1) \in
            [ inv : Invoices, op : { "create", "cancel" },
              call : 1 .. MaxCancels + 1, no : Attempts ]
      BY DEF Send, GatewayTypeOK, CallsOK, Request, Attempts
    <2>2. attempt[i] \in 0 .. MaxAttempts /\ attempt[i] < MaxAttempts
      BY DEF Send, GatewayTypeOK, CallsOK
    <2>3. attempt[i] + 1 \in 0 .. MaxAttempts
      BY <2>2
    <2>4. /\ phase' \in [ Invoices -> { "idle", "sending", "waiting" } ]
          /\ attempt' \in [ Invoices -> 0 .. MaxAttempts ]
      BY <2>3 DEF Send, GatewayTypeOK
    <2>5. wire' \subseteq [ inv : Invoices, op : { "create", "cancel" },
                            call : 1 .. MaxCancels + 1, no : Attempts ]
      BY <2>1 DEF Send, GatewayTypeOK
    <2> QED BY <2>4, <2>5 DEF Send, GatewayTypeOK
  <1>2. CallsOK' BY DEF Send, GatewayTypeOK, CallsOK
  <1>3. WireOK' BY DEF Send, GatewayTypeOK, CallsOK, WireOK, Request
  <1>4. AnswersOK' BY DEF Send, GatewayTypeOK, AnswersOK
  <1>5. OneKey' BY DEF Send, OneKey
  <1> QED BY <1>1, <1>2, <1>3, <1>4, <1>5

\* Returning to the caller keeps the invariant.
LEMMA ReturnStep ==
  ASSUME GatewayInv, NEW i \in Invoices,
         NEW r \in Errors \cup { "link", "paid", "cancelled" },
         r = "link" => links[i][1] # "none",
         Return(i, r)
  PROVE  GatewayInv'
  <1> USE GatewayAssumption DEF GatewayInv
  <1>1. GatewayTypeOK' BY DEF Return, GatewayTypeOK
  <1>2. CallsOK' BY DEF Return, GatewayTypeOK, CallsOK
  <1>3. WireOK' BY DEF Return, WireOK
  <1>4. AnswersOK' BY DEF Return, GatewayTypeOK, AnswersOK
  <1>5. OneKey' BY DEF Return, OneKey
  <1> QED BY <1>1, <1>2, <1>3, <1>4, <1>5

\* An attempt that failed keeps the invariant.
LEMMA FailedStep ==
  ASSUME GatewayInv, NEW i \in Invoices, phase[i] = "waiting", Failed(i)
  PROVE  GatewayInv'
  <1> USE GatewayAssumption
  <1>1. CASE attempt[i] = MaxAttempts /\ Return(i, "transient")
    BY <1>1, ReturnStep DEF Errors
  <1>2. CASE attempt[i] < MaxAttempts /\ ~Return(i, "transient")
    <2> USE <1>2 DEF GatewayInv
    <2>0. /\ phase' = [ phase EXCEPT ![i] = "sending" ]
          /\ reply' = [ reply EXCEPT ![i] = "none" ]
          /\ UNCHANGED << op, calls, attempt, result, wire, links >>
      BY DEF Failed
    <2>1. GatewayTypeOK' BY <2>0 DEF GatewayTypeOK
    <2>2. CallsOK' BY <2>0 DEF GatewayTypeOK, CallsOK
    <2>3. WireOK' BY <2>0 DEF WireOK
    <2>4. AnswersOK' BY <2>0 DEF GatewayTypeOK, AnswersOK
    <2>5. OneKey' BY <2>0 DEF OneKey
    <2> QED BY <2>1, <2>2, <2>3, <2>4, <2>5
  <1> QED BY <1>1, <1>2, ReturnStep DEF Failed, Errors, GatewayInv, GatewayTypeOK

\* An answer received keeps the invariant.
LEMMA ReceiveStep ==
  ASSUME GatewayInv, NEW i \in Invoices, Receive(i)
  PROVE  GatewayInv'
  <1>1. CASE reply[i] = "transient" /\ Failed(i)
    BY <1>1, FailedStep DEF Receive
  <1>2. CASE reply[i] # "transient" /\ Return(i, Outcome(i))
    <2>1. reply[i] \in Errors \cup { "link", "paid", "cancelled" }
      BY DEF Receive, GatewayInv, GatewayTypeOK
    <2>2. reply[i] = "link" => links[i][1] # "none"
      BY DEF GatewayInv, AnswersOK
    <2> QED BY <1>2, <2>1, <2>2, ReturnStep DEF Outcome
  <1> QED BY <1>1, <1>2 DEF Receive

\* What the three provider steps share: the first link may move forward, and
\* the answer that goes out is true of it.
LEMMA ServeStep ==
  ASSUME GatewayInv, NEW m \in wire,
         NEW s \in Statuses, NEW r \in Errors \cup { "link", "paid", "cancelled" },
         links' = [ links EXCEPT ![m.inv][1] = s ],
         links[m.inv][1] # "none" => s # "none",
         links[m.inv][1] \in { "paid", "cancelled" } => s = links[m.inv][1],
         r = "link" => m.op = "create" /\ s # "none",
         r \in { "paid", "cancelled" } => m.op = "cancel" /\ s = r,
         Reply(m, r), wire' = wire \ { m }, UNCHANGED client
  PROVE  GatewayInv'
  <1> USE GatewayAssumption, FirstAttempt DEF GatewayInv, client
  <1>0. m.inv \in Invoices BY DEF GatewayTypeOK
  <1>1. GatewayTypeOK'
    <2>1. links' \in [ Invoices -> [ Attempts -> Statuses ] ]
      BY <1>0 DEF GatewayTypeOK
    <2>2. reply' \in [ Invoices -> Errors \cup { "none", "link", "paid", "cancelled" } ]
      BY <1>0 DEF GatewayTypeOK, Reply
    <2> QED BY <2>1, <2>2 DEF GatewayTypeOK
  <1>2. CallsOK' BY DEF CallsOK
  <1>3. WireOK' BY DEF WireOK
  <1>4. AnswersOK'
    <2> SUFFICES ASSUME NEW i \in Invoices
                 PROVE  /\ reply'[i] # "none" => phase[i] = "waiting"
                        /\ reply'[i] = "link" =>
                             op[i] = "create" /\ links'[i][1] # "none"
                        /\ reply'[i] \in { "paid", "cancelled" } =>
                             op[i] = "cancel" /\ links'[i][1] = reply'[i]
                        /\ result[i] = "link" => links'[i][1] # "none"
                        /\ calls[i] >= 2 => links'[i][1] # "none"
      BY DEF AnswersOK
    <2>1. links'[i][1] = IF i = m.inv THEN s ELSE links[i][1]
      BY <1>0 DEF GatewayTypeOK
    <2>2. links[i][1] # "none" => links'[i][1] # "none"
      BY <2>1
    <2>3. CASE reply'[i] = reply[i]
      BY <2>1, <2>2, <2>3 DEF AnswersOK
    <2>4. CASE reply'[i] # reply[i]
      <3>1. i = m.inv /\ reply'[i] = r /\ phase[i] = "waiting" /\ m.op = op[i]
        BY <2>4, <1>0 DEF Reply, Request, GatewayTypeOK
      <3> QED BY <3>1, <2>1, <2>2 DEF AnswersOK
    <2> QED BY <2>3, <2>4
  <1>5. OneKey' BY <1>0 DEF OneKey, GatewayTypeOK
  <1> QED BY <1>1, <1>2, <1>3, <1>4, <1>5

\* The provider's creation of a link keeps the invariant.
LEMMA ServeCreateStep ==
  ASSUME GatewayInv, NEW m \in wire, ServeCreate(m)
  PROVE  GatewayInv'
  <1> DEFINE s == IF links[m.inv][1] = "none" THEN "issued" ELSE links[m.inv][1]
  <1>0. m.inv \in Invoices BY DEF GatewayInv, GatewayTypeOK
  <1>1. s \in Statuses
    BY <1>0, FirstAttempt DEF GatewayInv, GatewayTypeOK, Statuses
  <1>2. links' = [ links EXCEPT ![m.inv][1] = s ]
    BY <1>0, FirstAttempt DEF ServeCreate, KeyOf, GatewayInv, GatewayTypeOK
  <1>3. PICK r \in { "link", "transient", "permanent" } : Reply(m, r)
    BY DEF ServeCreate
  <1>4. s # "none" BY DEF Statuses
  <1> HIDE DEF s
  <1>5. links[m.inv][1] \in { "paid", "cancelled" } => s = links[m.inv][1]
    BY DEF s
  <1> QED BY <1>1, <1>2, <1>3, <1>4, <1>5, ServeStep DEF ServeCreate, Errors

\* The provider's cancellation of a link keeps the invariant.
LEMMA ServeCancelStep ==
  ASSUME GatewayInv, NEW m \in wire, ServeCancel(m)
  PROVE  GatewayInv'
  <1> DEFINE s == IF links[m.inv][1] = "issued" THEN "cancelled" ELSE links[m.inv][1]
  <1>0. m.inv \in Invoices BY DEF GatewayInv, GatewayTypeOK
  <1>1. s \in Statuses /\ s \in { "paid", "cancelled" }
    <2>1. links[m.inv][1] \in Statuses
      BY <1>0, FirstAttempt DEF GatewayInv, GatewayTypeOK
    <2>2. links[m.inv][1] # "none"
      BY <1>0 DEF ServeCancel, GatewayInv, WireOK, AnswersOK
    <2> QED BY <2>1, <2>2 DEF Statuses
  <1>2. links' = [ links EXCEPT ![m.inv][1] = s ]
    BY DEF ServeCancel, KeyOf
  <1>3. PICK r \in { s, "transient", "permanent" } : Reply(m, r)
    BY DEF ServeCancel, KeyOf
  <1>4. links[m.inv][1] \in { "paid", "cancelled" } => s = links[m.inv][1]
    OBVIOUS
  <1> HIDE DEF s
  <1>5. m.op = "cancel" /\ wire' = wire \ { m } /\ UNCHANGED client
    BY DEF ServeCancel
  <1> QED BY <1>1, <1>2, <1>3, <1>4, <1>5, ServeStep DEF Errors

\* A request the provider refuses keeps the invariant.
LEMMA RefuseStep ==
  ASSUME GatewayInv, NEW m \in wire, Refuse(m)
  PROVE  GatewayInv'
  <1>0. m.inv \in Invoices BY DEF GatewayInv, GatewayTypeOK
  <1>1. links[m.inv][1] \in Statuses
    BY <1>0, FirstAttempt DEF GatewayInv, GatewayTypeOK
  <1>2. links' = [ links EXCEPT ![m.inv][1] = links[m.inv][1] ]
    BY <1>0, FirstAttempt DEF Refuse, GatewayInv, GatewayTypeOK
  <1>3. PICK r \in { "transient", "permanent" } : Reply(m, r)
    BY DEF Refuse
  <1> QED BY <1>1, <1>2, <1>3, ServeStep DEF Refuse, Errors

\* A customer's payment keeps the invariant.
LEMMA PayStep ==
  ASSUME GatewayInv, NEW i \in Invoices, Pay(i)
  PROVE  GatewayInv' /\ links[i][1] = "issued"
         /\ links' = [ links EXCEPT ![i][1] = "paid" ]
  <1> USE GatewayAssumption, FirstAttempt DEF GatewayInv
  <1>1. PICK n \in Attempts : /\ links[i][n] = "issued"
                              /\ links' = [ links EXCEPT ![i][n] = "paid" ]
    BY DEF Pay
  <1>2. n = 1 BY <1>1 DEF OneKey
  <1>3. GatewayTypeOK' BY <1>1, <1>2 DEF Pay, GatewayTypeOK, Statuses, client
  <1>4. CallsOK' /\ WireOK' BY DEF Pay, CallsOK, WireOK, client
  <1>5. AnswersOK' BY <1>1, <1>2 DEF Pay, AnswersOK, GatewayTypeOK, client
  <1>6. OneKey' BY <1>1, <1>2 DEF OneKey, GatewayTypeOK
  <1> QED BY <1>1, <1>2, <1>3, <1>4, <1>5, <1>6

\* Every step keeps the invariant.
LEMMA NextInv == GatewayInv /\ [Next]_vars => GatewayInv'
  <1> SUFFICES ASSUME GatewayInv, [Next]_vars PROVE GatewayInv' OBVIOUS
  <1>1. CASE UNCHANGED vars
    BY <1>1 DEF vars, client, GatewayInv, GatewayTypeOK, CallsOK, WireOK,
                AnswersOK, OneKey
  <1>2. ASSUME NEW i \in Invoices, Client(i) PROVE GatewayInv'
    BY <1>2, SendStep, FailedStep, ReceiveStep DEF Client, Timeout
  <1>3. ASSUME NEW i \in Invoices, Pay(i) \/ Call(i, "create") \/ Call(i, "cancel")
        PROVE  GatewayInv'
    BY <1>3, PayStep, CallStep
  <1>4. ASSUME NEW m \in wire, ServeCreate(m) \/ ServeCancel(m) \/ Refuse(m)
        PROVE  GatewayInv'
    BY <1>4, ServeCreateStep, ServeCancelStep, RefuseStep
  <1> QED BY <1>1, <1>2, <1>3, <1>4 DEF Next

\* The inductive invariant of the retry loop.
THEOREM GatewayInvariant == Spec => []GatewayInv
  BY InitInv, NextInv, PTL DEF Spec

\* GatewayTypeOK holds of every behaviour: in particular _request never sends
\* more than MaxAttempts requests for a call.
THEOREM GatewayTypes == Spec => []GatewayTypeOK
  <1>1. GatewayInv => GatewayTypeOK BY DEF GatewayInv
  <1> QED BY <1>1, GatewayInvariant, PTL

\* NoOrphanLink: a create that is retried after its answer was lost never
\* leaves a second link at the provider.
THEOREM NoOrphan == Spec => []NoOrphanLink
  <1>1. GatewayInv => NoOrphanLink
    <2> SUFFICES ASSUME GatewayInv, NEW i \in Invoices
                 PROVE  Cardinality({ n \in Attempts : links[i][n] # "none" }) <= 1
      BY DEF NoOrphanLink
    <2>1. { n \in Attempts : links[i][n] # "none" } \subseteq { 1 }
      BY DEF GatewayInv, OneKey
    <2>2. IsFiniteSet({ 1 }) /\ Cardinality({ 1 }) = 1
      BY FS_Singleton
    <2> QED BY <2>1, <2>2, FS_Subset
  <1> QED BY <1>1, GatewayInvariant, PTL

-----------------------------------------------------------------------------
(* Refinement *)

\* The gateway starts where its contract does.
LEMMA ContractInit == Init => Contract!Init
  BY FirstAttempt
  DEF Init, Contract!Init, KeyOf

\* Starting a call is a call of the contract.
LEMMA CallRefines ==
  ASSUME GatewayInv, NEW i \in Invoices, NEW o \in { "create", "cancel" }, Call(i, o)
  PROVE  Contract!Ask(i, o)
  <1> USE DEF GatewayInv
  <1>1. phase[i] = "idle" /\ phase' = [ phase EXCEPT ![i] = "sending" ]
        /\ op' = [ op EXCEPT ![i] = o ] /\ calls' = [ calls EXCEPT ![i] = @ + 1 ]
        /\ UNCHANGED << result, links >>
    BY DEF Call
  <1>2. IF o = "create" THEN calls[i] = 0 ELSE links[i][1] # "none" /\ calls[i] >= 1
    BY DEF Call, GatewayTypeOK, CallsOK, AnswersOK
  <1> DEFINE Asked(n) == { a \in { "create", "cancel" } :
                             IF a = "create" THEN n >= 1 ELSE n >= 2 }
  <1>3. /\ o = "create" => Asked(calls[i]) = {}
        /\ Asked(calls[i] + 1) = Asked(calls[i]) \cup { o }
    BY <1>2 DEF GatewayTypeOK
  <1>4. calls' = [ calls EXCEPT ![i] = calls[i] + 1 ] /\ calls \in [ Invoices -> Nat ]
    BY <1>1 DEF GatewayTypeOK
  <1> HIDE DEF Asked
  <1>5. [ j \in Invoices |-> Asked(calls[j]) ]' =
          [ [ j \in Invoices |-> Asked(calls[j]) ] EXCEPT ![i] = @ \cup { o } ]
    BY <1>3, <1>4
  <1>6. [ j \in Invoices |-> IF phase[j] = "idle" THEN "idle" ELSE op[j] ]' =
          [ [ j \in Invoices |-> IF phase[j] = "idle" THEN "idle" ELSE op[j] ]
              EXCEPT ![i] = o ]
    BY <1>1 DEF GatewayTypeOK
  <1> QED BY <1>1, <1>2, <1>3, <1>5, <1>6 DEF Contract!Ask, KeyOf, Asked

\* A retry or a wait within a call is a stutter of the contract.
LEMMA QuietRefines ==
  ASSUME GatewayInv, NEW i \in Invoices, phase[i] # "idle",
         phase' = [ phase EXCEPT ![i] = "sending" ]
           \/ phase' = [ phase EXCEPT ![i] = "waiting" ],
         UNCHANGED << op, calls, result, links >>
  PROVE  UNCHANGED Contract!vars
  BY DEF Contract!vars, GatewayInv, GatewayTypeOK

\* A return to the caller is a return of the contract.
LEMMA ReturnRefines ==
  ASSUME GatewayInv, NEW i \in Invoices, phase[i] = "waiting",
         NEW r \in Errors \cup { "link", "paid", "cancelled" },
         r = "link" => op[i] = "create" /\ links[i][1] # "none",
         r \in { "paid", "cancelled" } => op[i] = "cancel" /\ links[i][1] = r,
         Return(i, r)
  PROVE  Contract!Return(i)
  <1> USE DEF GatewayInv
  <1>1. phase' = [ phase EXCEPT ![i] = "idle" ] /\ result' = [ result EXCEPT ![i] = r ]
        /\ UNCHANGED << op, calls, links >>
    BY DEF Return
  <1> QED BY <1>1 DEF Contract!Return, Contract!Errors, Contract!ClosedStatuses,
                      Errors, KeyOf, GatewayTypeOK

\* A failed attempt is a step or a stutter of the contract.
LEMMA FailedRefines ==
  ASSUME GatewayInv, NEW i \in Invoices, phase[i] = "waiting", Failed(i)
  PROVE  Contract!Return(i) \/ UNCHANGED Contract!vars
  <1>1. CASE Return(i, "transient")
    BY <1>1, ReturnRefines DEF Errors
  <1>2. CASE ~Return(i, "transient")
    BY <1>2, QuietRefines DEF Failed
  <1> QED BY <1>1, <1>2

\* An answer received is a step or a stutter of the contract.
LEMMA ReceiveRefines ==
  ASSUME GatewayInv, NEW i \in Invoices, Receive(i)
  PROVE  Contract!Return(i) \/ UNCHANGED Contract!vars
  <1>1. CASE reply[i] = "transient" /\ Failed(i)
    BY <1>1, FailedRefines DEF Receive
  <1>2. CASE reply[i] # "transient" /\ Return(i, Outcome(i))
    <2>1. reply[i] \in Errors \cup { "link", "paid", "cancelled" }
      BY DEF Receive, GatewayInv, GatewayTypeOK
    <2>2. /\ reply[i] = "link" => op[i] = "create" /\ links[i][1] # "none"
          /\ reply[i] \in { "paid", "cancelled" } =>
               op[i] = "cancel" /\ links[i][1] = reply[i]
          /\ phase[i] = "waiting"
      BY DEF Receive, GatewayInv, AnswersOK
    <2> QED BY <1>2, <2>1, <2>2, ReturnRefines DEF Outcome
  <1> QED BY <1>1, <1>2 DEF Receive

\* A change of the invoice's one link is a step of the contract's provider.
LEMMA LinkRefines ==
  ASSUME GatewayInv, NEW i \in Invoices, NEW s \in Statuses,
         links' = [ links EXCEPT ![i][1] = s ], UNCHANGED client,
         \/ s = links[i][1]
         \/ links[i][1] = "none" /\ s = "issued" /\ calls[i] >= 1
         \/ links[i][1] = "issued" /\ s = "cancelled" /\ calls[i] >= 2
         \/ links[i][1] = "issued" /\ s = "paid"
  PROVE  Contract!Make(i) \/ Contract!Revoke(i) \/ Contract!Pay(i)
         \/ UNCHANGED Contract!vars
  <1> USE FirstAttempt DEF GatewayInv, client, KeyOf, GatewayTypeOK
  <1>0. [ j \in Invoices |-> links[j][1] ]' =
          [ [ j \in Invoices |-> links[j][1] ] EXCEPT ![i] = s ]
    OBVIOUS
  <1>1. CASE s = links[i][1]
    BY <1>0, <1>1 DEF Contract!vars
  <1>2. CASE links[i][1] = "none" /\ s = "issued" /\ calls[i] >= 1
    BY <1>0, <1>2 DEF Contract!Make
  <1>3. CASE links[i][1] = "issued" /\ s = "cancelled" /\ calls[i] >= 2
    BY <1>0, <1>3 DEF Contract!Revoke
  <1>4. CASE links[i][1] = "issued" /\ s = "paid"
    BY <1>0, <1>4 DEF Contract!Pay
  <1> QED BY <1>1, <1>2, <1>3, <1>4

\* The provider's answer is a step or a stutter of the contract.
LEMMA ServeRefines ==
  ASSUME GatewayInv, NEW m \in wire, ServeCreate(m) \/ ServeCancel(m) \/ Refuse(m)
  PROVE  Contract!Next \/ UNCHANGED Contract!vars
  <1> USE FirstAttempt DEF GatewayInv
  <1>0. m.inv \in Invoices /\ links[m.inv][1] \in Statuses
    BY DEF GatewayTypeOK
  <1>1. UNCHANGED client BY DEF ServeCreate, ServeCancel, Refuse
  <1>2. PICK s \in Statuses :
          /\ links' = [ links EXCEPT ![m.inv][1] = s ]
          /\ \/ s = links[m.inv][1]
             \/ links[m.inv][1] = "none" /\ s = "issued" /\ calls[m.inv] >= 1
             \/ links[m.inv][1] = "issued" /\ s = "cancelled" /\ calls[m.inv] >= 2
    <2>1. CASE ServeCreate(m)
      BY <1>0, <2>1 DEF ServeCreate, KeyOf, WireOK, Statuses, GatewayTypeOK
    <2>2. CASE ServeCancel(m)
      BY <1>0, <2>2 DEF ServeCancel, KeyOf, WireOK, Statuses, GatewayTypeOK
    <2>3. CASE Refuse(m)
      BY <1>0, <2>3 DEF Refuse, GatewayTypeOK
    <2> QED BY <2>1, <2>2, <2>3
  <1> QED BY <1>0, <1>1, <1>2, LinkRefines DEF Contract!Next

\* Every step of the gateway is a step or a stutter of the contract.
LEMMA StepRefines ==
  GatewayInv /\ [Next]_vars => [Contract!Next]_(Contract!vars)
  <1> SUFFICES ASSUME GatewayInv, [Next]_vars
               PROVE  Contract!Next \/ UNCHANGED Contract!vars
    OBVIOUS
  <1>1. CASE UNCHANGED vars
    BY <1>1 DEF vars, client, Contract!vars
  <1>2. ASSUME NEW i \in Invoices, Client(i)
        PROVE  Contract!Next \/ UNCHANGED Contract!vars
    <2>1. CASE Send(i) BY <2>1, QuietRefines DEF Send
    <2>2. CASE Timeout(i)
      BY <2>2, FailedRefines DEF Timeout, Contract!Next
    <2>3. CASE Receive(i) BY <2>3, ReceiveRefines DEF Contract!Next
    <2> QED BY <1>2, <2>1, <2>2, <2>3 DEF Client
  <1>3. ASSUME NEW i \in Invoices, NEW o \in { "create", "cancel" }, Call(i, o)
        PROVE  Contract!Next
    BY <1>3, CallRefines DEF Contract!Next, Contract!Operations
  <1>4. ASSUME NEW i \in Invoices, Pay(i)
        PROVE  Contract!Next \/ UNCHANGED Contract!vars
    BY <1>4, PayStep, LinkRefines DEF Pay, Statuses, Contract!Next
  <1>5. ASSUME NEW m \in wire, ServeCreate(m) \/ ServeCancel(m) \/ Refuse(m)
        PROVE  Contract!Next \/ UNCHANGED Contract!vars
    BY <1>5, ServeRefines
  <1> QED BY <1>1, <1>2, <1>3, <1>4, <1>5 DEF Next

\* KeepsContract: the retrying client over an unreliable provider implements
\* the contract that _create_recovery_link and _execute_cancel rely on.
THEOREM GatewayRefines == Spec => KeepsContract
  BY ContractInit, StepRefines, GatewayInvariant, PTL
  DEF Spec, KeepsContract, Contract!Spec

=============================================================================
