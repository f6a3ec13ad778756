------------------------------ MODULE Gateway -------------------------------
(***************************************************************************)
(* RazorpayPaymentLinkGateway (app/gateway.py): create_payment_link and    *)
(* cancel_payment_link over the retry loop of _request, against a provider *)
(* that may answer late, answer with an error after acting, or act on a    *)
(* request whose sender gave up long ago.                                  *)
(***************************************************************************)
EXTENDS Naturals, FiniteSets

CONSTANTS
    Invoices,      \* reference ids
    MaxAttempts,   \* gateway_max_attempts
    MaxCancels     \* bound: cancel calls per invoice

ASSUME GatewayAssumption == MaxAttempts \in Nat \ {0} /\ MaxCancels \in Nat

VARIABLES
    phase,     \* of the caller's thread: "idle", "sending" or "waiting"
    op,        \* the operation of the current or the last call
    calls,     \* number of calls made
    attempt,   \* attempt number inside the call
    result,    \* what the last call returned
    wire,      \* requests the provider may still act on
    reply,     \* the answer on the open connection, if any
    links      \* the provider's links, by invoice and idempotency key

client == << phase, op, calls, attempt, result >>
vars == << client, wire, reply, links >>

Attempts == 1 .. MaxAttempts

\* Mutant: the key is drawn anew for every attempt.
BadKeyOf(n) == n

\* The idempotency key of attempt n: derived from the reference id and the
\* amount, so the same for all attempts of a call.
KeyOf(n) == 1

Request(i, n) == [ inv |-> i, op |-> op[i], call |-> calls[i], no |-> n ]

Init ==
    /\ phase = [ i \in Invoices |-> "idle" ]
    /\ op = [ i \in Invoices |-> "create" ]
    /\ calls = [ i \in Invoices |-> 0 ]
    /\ attempt = [ i \in Invoices |-> 0 ]
    /\ result = [ i \in Invoices |-> "none" ]
    /\ wire = {}
    /\ reply = [ i \in Invoices |-> "none" ]
    /\ links = [ i \in Invoices |-> [ n \in Attempts |-> "none" ] ]

-----------------------------------------------------------------------------
(* The client *)

\* create_payment_link once per invoice; cancel_payment_link for a link that
\* a create returned.
Call(i, o) ==
    /\ phase[i] = "idle"
    /\ IF o = "create" THEN calls[i] = 0
       ELSE result[i] # "none" /\ calls[i] \in 1 .. MaxCancels
            /\ (op[i] = "create" => result[i] = "link")
    /\ phase' = [ phase EXCEPT ![i] = "sending" ]
    /\ op' = [ op EXCEPT ![i] = o ]
    /\ calls' = [ calls EXCEPT ![i] = @ + 1 ]
    /\ attempt' = [ attempt EXCEPT ![i] = 0 ]
    /\ UNCHANGED << result, wire, reply, links >>

\* _attempt, at once or after the backoff: the request goes out.
Send(i) ==
    /\ phase[i] = "sending"
    /\ phase' = [ phase EXCEPT ![i] = "waiting" ]
    /\ attempt' = [ attempt EXCEPT ![i] = @ + 1 ]
    /\ wire' = wire \cup { Request(i, attempt[i] + 1) }
    /\ UNCHANGED << op, calls, result, reply, links >>

Return(i, r) ==
    /\ phase' = [ phase EXCEPT ![i] = "idle" ]
    /\ result' = [ result EXCEPT ![i] = r ]
    /\ reply' = [ reply EXCEPT ![i] = "none" ]
    /\ UNCHANGED << op, calls, attempt, wire, links >>

\* Mutant: the cap is off by one.
BadFailedCap(i) ==
    \/ /\ attempt[i] > MaxAttempts
       /\ Return(i, "transient")
    \/ /\ attempt[i] <= MaxAttempts
       /\ phase' = [ phase EXCEPT ![i] = "sending" ]
       /\ reply' = [ reply EXCEPT ![i] = "none" ]
       /\ UNCHANGED << op, calls, attempt, result, wire, links >>

\* A transient error: back off and try again, or give up at the cap.
Failed(i) ==
    \/ /\ attempt[i] = MaxAttempts
       /\ Return(i, "transient")
    \/ /\ attempt[i] < MaxAttempts
       /\ phase' = [ phase EXCEPT ![i] = "sending" ]
       /\ reply' = [ reply EXCEPT ![i] = "none" ]
       /\ UNCHANGED << op, calls, attempt, result, wire, links >>

\* No connection, or no answer in time.
Timeout(i) ==
    /\ phase[i] = "waiting"
    /\ Failed(i)

\* Mutant: an error body without a status counts as a cancellation.
BadOutcome(i) ==
    IF op[i] = "cancel" /\ reply[i] = "permanent" THEN "cancelled" ELSE reply[i]

\* The value returned, or the error that is not retried: a 4xx, a body that
\* is not a JSON object or lacks a field, any exception _attempt lets pass.
Outcome(i) == reply[i]

Receive(i) ==
    /\ phase[i] = "waiting" /\ reply[i] # "none"
    /\ \/ reply[i] = "transient" /\ Failed(i)
       \/ reply[i] # "transient" /\ Return(i, Outcome(i))

-----------------------------------------------------------------------------
(* The provider *)

\* The answer reaches the client only on the connection it is waiting on.
Reply(m, r) ==
    reply' = IF phase[m.inv] = "waiting" /\ m = Request(m.inv, attempt[m.inv])
             THEN [ reply EXCEPT ![m.inv] = r ] ELSE reply

\* A key seen before returns the link it made.  A body may be lost to an
\* error on the way, or unreadable.
ServeCreate(m) ==
    /\ m \in wire /\ m.op = "create"
    /\ links' = [ links EXCEPT ![m.inv][KeyOf(m.no)] =
                    IF @ = "none" THEN "issued" ELSE @ ]
    /\ \E r \in { "link", "transient", "permanent" } : Reply(m, r)
    /\ wire' = wire \ { m }
    /\ UNCHANGED client

\* Cancelling is idempotent: the answer is the status of the closed link.
ServeCancel(m) ==
    LET n == KeyOf(1)
        now == links[m.inv][n]
        after == IF now = "issued" THEN "cancelled" ELSE now
    IN /\ m \in wire /\ m.op = "cancel"
       /\ links' = [ links EXCEPT ![m.inv][n] = after ]
       /\ \E r \in { after, "transient", "permanent" } : Reply(m, r)
       /\ wire' = wire \ { m }
       /\ UNCHANGED client

\* The provider refuses: overload, or a 4xx.
Refuse(m) ==
    /\ m \in wire
    /\ \E r \in { "transient", "permanent" } : Reply(m, r)
    /\ wire' = wire \ { m }
    /\ UNCHANGED << client, links >>

\* The customer pays a link.
Pay(i) ==
    /\ \E n \in Attempts : /\ links[i][n] = "issued"
                           /\ links' = [ links EXCEPT ![i][n] = "paid" ]
    /\ UNCHANGED << client, wire, reply >>

-----------------------------------------------------------------------------
Client(i) == Send(i) \/ Timeout(i) \/ Receive(i)

Next ==
    \/ \E i \in Invoices :
         \/ Client(i) \/ Pay(i)
         \/ Call(i, "create") \/ Call(i, "cancel")
    \/ \E m \in wire : ServeCreate(m) \/ ServeCancel(m) \/ Refuse(m)

Spec == Init /\ [][Next]_vars

-----------------------------------------------------------------------------
(* Properties *)

Statuses == { "none", "issued", "paid", "cancelled" }
Errors == { "transient", "permanent" }

\* Types, and the attempt counter of _request stays within its cap.
GatewayTypeOK ==
    /\ phase \in [ Invoices -> { "idle", "sending", "waiting" } ]
    /\ op \in [ Invoices -> { "create", "cancel" } ]
    /\ calls \in [ Invoices -> 0 .. MaxCancels + 1 ]
    /\ attempt \in [ Invoices -> 0 .. MaxAttempts ]
    /\ result \in [ Invoices -> Errors \cup { "none", "link", "paid", "cancelled" } ]
    /\ wire \subseteq [ inv : Invoices, op : { "create", "cancel" },
                        call : 1 .. MaxCancels + 1, no : Attempts ]
    /\ reply \in [ Invoices -> Errors \cup { "none", "link", "paid", "cancelled" } ]
    /\ links \in [ Invoices -> [ Attempts -> Statuses ] ]

\* The comment of create_payment_link: a create whose answer was lost and
\* that is retried must not leave a second payable link of the invoice.
NoOrphanLink ==
    \A i \in Invoices :
        Cardinality({ n \in Attempts : links[i][n] # "none" }) <= 1

Contract == INSTANCE CreateContract WITH
    link <- [ i \in Invoices |-> links[i][KeyOf(1)] ],
    call <- [ i \in Invoices |-> IF phase[i] = "idle" THEN "idle" ELSE op[i] ],
    answer <- result,
    asked <- [ i \in Invoices |-> { o \in { "create", "cancel" } :
                 IF o = "create" THEN calls[i] >= 1 ELSE calls[i] >= 2 } ]

\* The client keeps the contract the orchestrator relies on: retries and late
\* effects never show as a second link or as an answer that is not true.
KeepsContract == Contract!Spec

=============================================================================
